---- MODULE Spec2Model ----
(***************************************************************************)
(* Model of the map tools of src/tools/amap.py: the location resolver      *)
(* (_resolve_location), and the five registered operations                 *)
(* get_location_by_ip, geocode_address, regeocode_location, plan_route and *)
(* poi_search.  One invocation is a small state machine whose steps are    *)
(* the pieces of the coroutine between two awaits: a Call action runs the  *)
(* handler from its entry to its first upstream request (or to its         *)
(* return), and a Response action runs it from the arrival of a response   *)
(* to the next request (or to its return).                                 *)
(*                                                                         *)
(* The web search tool of src/tools/tavily.py (web_search) keeps a module   *)
(* global, CURRENT_KEY_INDEX, that every invocation reads and advances;     *)
(* its invocations are modelled side by side, interleaved at their awaits,  *)
(* under the specification SpecWeb.                                         *)
(*                                                                         *)
(* The formatters (_fmt_time, _fmt_dist, _format_nav_text,                  *)
(* _format_transit_text and the distance poi_search renders inline) are    *)
(* pure functions; the specification SpecFmt applies each of them once to   *)
(* an input drawn from a bounded set and keeps input and output in fmt.     *)
(*                                                                         *)
(* Python strings that the code inspects character by character (place    *)
(* inputs, coordinates) are sequences of one-character strings.  Texts     *)
(* returned to the caller are sequences of tokens: Lit("..") for the fixed *)
(* parts of an f-string and Fmt(v) for an interpolated value.  The Chinese *)
(* literals of the source are written in ASCII; the comment next to each   *)
(* one quotes the original.                                                *)
(***************************************************************************)
EXTENDS Integers, Sequences, FiniteSets, TLC

VARIABLES
    AMAP_API_KEY,   \* amap.py:13, read once from the environment
    call,           \* the operation invoked and its arguments
    pc,             \* where the coroutine is suspended
    side,           \* which resolution is running: "ori", "des", "addr", "-"
    inflight,       \* upstream requests awaiting their response
    log,            \* history: every request sent, every response received
    last,           \* the response the last step consumed
    locals,         \* the handler's local variables that outlive an await
    result,         \* what the invocation gave back to its caller
    KEY_POOL,           \* tavily.py:12, built once from the environment
    CURRENT_KEY_INDEX,  \* tavily.py:13, module global
    web,                \* the invocations of web_search, by number
    fmt                 \* a formatter applied on its own: input and output

vars == <<AMAP_API_KEY, call, pc, side, inflight, log, last, locals, result,
          KEY_POOL, CURRENT_KEY_INDEX, web, fmt>>

----------------------------------------------------------------------------
(* Bounds *)

\* longest place string enumerated exhaustively over Alphabet
MaxLen == 3

\* invocations of web_search that may run side by side
NumInvocations == 2

----------------------------------------------------------------------------
(* Python values *)

None == [t |-> "None", v |-> <<>>]
Str(s) == [t |-> "str", v |-> s]
\* the empty JSON array the upstream uses for "no value"
EmptyList == [t |-> "list", v |-> <<>>]

\* Python truthiness of the values above: None, "", [] and 0 are falsy
Truthy(x) ==
    \/ x.t = "str" /\ x.v # <<>>
    \/ x.t = "int" /\ x.n # 0

Lit(s) == [lit |-> s]
Fmt(x) == [fmt |-> x]
FmtInt(n) == [int |-> n]
FmtExc(e) == [str_e |-> e]

Text(tokens) == [kind |-> "text", text |-> tokens]
Raised(e) == [kind |-> "raise", exc |-> e]
NoResult == [kind |-> "none"]

----------------------------------------------------------------------------
(* Character strings *)

Digits == {"0", "1", "2", "3", "4", "5", "6", "7", "8", "9"}
Whitespace == {" "}
Alphabet == {"1", ".", "-", ",", " ", "a"}

Strings(n) == UNION {[1..k -> Alphabet] : k \in 0..n}

IsDigit(c) == c \in Digits

\* str.strip(): drop leading and trailing whitespace
strip(s) ==
    LET keep == {i \in 1..Len(s) : s[i] \notin Whitespace}
        Min(S) == CHOOSE x \in S : \A y \in S : x <= y
        Max(S) == CHOOSE x \in S : \A y \in S : x >= y
    IN IF keep = {} THEN <<>> ELSE SubSeq(s, Min(keep), Max(keep))

\* positions j such that s[i..j-1] is a non-empty run of digits
DigitRunEnds(s, i) ==
    {j \in (i+1)..(Len(s)+1) : \A k \in i..(j-1) : IsDigit(s[k])}

\* positions j such that s[i..j-1] matches  -?\d+(\.\d+)?
NumberEnds(s, i) ==
    LET st == IF i <= Len(s) /\ s[i] = "-" THEN i + 1 ELSE i
        ints == DigitRunEnds(s, st)
    IN ints \cup UNION {IF j <= Len(s) /\ s[j] = "." THEN DigitRunEnds(s, j + 1) ELSE {}
                        : j \in ints}

\* re.match(r'^-?\d+(\.\d+)?,-?\d+(\.\d+)?$', s)   (amap.py:22)
CoordRegexMutNoSign(s) ==
    \E j \in DigitRunEnds(s, 1) :
        /\ j <= Len(s) /\ s[j] = ","
        /\ (Len(s) + 1) \in DigitRunEnds(s, j + 1)

CoordRegex(s) ==
    \E j \in NumberEnds(s, 1) :
        /\ j <= Len(s) /\ s[j] = ","
        /\ (Len(s) + 1) \in NumberEnds(s, j + 1)

----------------------------------------------------------------------------
(* Decimal numbers: float(str) on the strings the model enumerates.  The   *)
(* forms accepted are [ws][+-](digits[.digits] | digits. | .digits)[ws];   *)
(* a parsed number is sign * num / 10^scale.                               *)

DigitVal(c) ==
    CASE c = "0" -> 0 [] c = "1" -> 1 [] c = "2" -> 2 [] c = "3" -> 3
      [] c = "4" -> 4 [] c = "5" -> 5 [] c = "6" -> 6 [] c = "7" -> 7
      [] c = "8" -> 8 [] c = "9" -> 9

RECURSIVE NatOf(_)
NatOf(s) == IF s = <<>> THEN 0
            ELSE NatOf(SubSeq(s, 1, Len(s) - 1)) * 10 + DigitVal(s[Len(s)])

RECURSIVE Pow10(_)
Pow10(n) == IF n = 0 THEN 1 ELSE 10 * Pow10(n - 1)

\* str(n) of an integer
RECURSIVE DigitsOfNat(_)
DigitsOfNat(n) ==
    IF n < 10 THEN <<CHOOSE c \in Digits : DigitVal(c) = n>>
    ELSE Append(DigitsOfNat(n \div 10), CHOOSE c \in Digits : DigitVal(c) = n % 10)
DigitsOf(n) == IF n < 0 THEN <<"-">> \o DigitsOfNat(-n) ELSE DigitsOfNat(n)

\* the decimal number written in t (already stripped);
\* [ok |-> FALSE] stands for ValueError
ParseDecimal(t) ==
    LET signed == t # <<>> /\ t[1] \in {"-", "+"}
        body == IF signed THEN Tail(t) ELSE t
        dots == {i \in 1..Len(body) : body[i] = "."}
        wellformed == /\ \A i \in 1..Len(body) : IsDigit(body[i]) \/ body[i] = "."
                      /\ Cardinality(dots) <= 1
                      /\ \E i \in 1..Len(body) : IsDigit(body[i])
    IN IF ~wellformed THEN [ok |-> FALSE]
       ELSE [ok |-> TRUE,
             num |-> (IF signed /\ t[1] = "-" THEN -1 ELSE 1)
                     * NatOf(SelectSeq(body, IsDigit)),
             scale |-> IF dots = {} THEN 0 ELSE Len(body) - (CHOOSE i \in dots : TRUE)]

\* float(s) of a string
float(s) == ParseDecimal(strip(s))

\* a < b for two parsed numbers
FloatLess(a, b) == a.num * Pow10(b.scale) < b.num * Pow10(a.scale)

\* str.split(','): the pieces between the commas
split_comma(s) ==
    LET commas == {i \in 1..Len(s) : s[i] = ","}
        cuts == {0} \cup commas \cup {Len(s) + 1}
        NextCut(i) == CHOOSE j \in cuts : j > i /\ \A k \in cuts : k > i => j <= k
        RECURSIVE From(_)
        From(i) == IF i = Len(s) + 1 THEN <<>>
                   ELSE <<SubSeq(s, i + 1, NextCut(i) - 1)>> \o From(NextCut(i))
    IN From(0)

----------------------------------------------------------------------------
(* Upstream: what one HTTP request can come back with *)

AMAP_API_HOST == "https://restapi.amap.com/v3"
AMAP_API_HOST_V4 == "https://restapi.amap.com/v4"

\* client.get raised: connection error or timeout
Exc(e) == [kind |-> "exc", exc |-> e]
Http(code, body) == [kind |-> "http", code |-> code, body |-> body]

\* a body that is not JSON (resp.json() raises), and a JSON array (no .get)
NotJson == [json |-> "invalid"]
JsonArray == [json |-> "array"]

Missing == [kind |-> "missing"]
List(l) == [kind |-> "list", list |-> l]

\* a v3 envelope with its result list ("geocodes" or "pois")
V3List(status, info, items) ==
    [json |-> "object", status |-> status, info |-> info, items |-> items]

\* one element of the result list: an object, or something without .get
NonObject == [obj |-> FALSE]
Item(location, adcode, name) ==
    [obj |-> TRUE, location |-> location, adcode |-> adcode, name |-> name]

Ok1 == Str(<<"1">>)
Ko0 == Str(<<"0">>)
InfoOK == Str(<<"O", "K">>)
InfoErr == Str(<<"I", "N", "V", "A", "L", "I", "D">>)

\* values the upstream may put in a result's "location" field
LocValues == {Str(<<"3", ",", "4">>), Str(<<"x">>), None, EmptyList}
AdcodeValues == {Str(<<"9">>), None}
UpName == Str(<<"N">>)

ExcResponses == {Exc("ConnectError"), Exc("ReadTimeout")}

ListResponses ==
    ExcResponses
    \cup {Http(500, NotJson),
          Http(500, V3List(Ok1, InfoOK, List(<<Item(Str(<<"3", ",", "4">>), Str(<<"9">>), UpName)>>))),
          Http(200, NotJson),
          Http(200, JsonArray),
          Http(200, V3List(Ko0, InfoErr, Missing)),
          Http(200, V3List(Ok1, InfoOK, Missing)),
          Http(200, V3List(Ok1, InfoOK, List(<<>>))),
          Http(200, V3List(Ok1, InfoOK, List(<<NonObject>>))),
          Http(200, V3List(Ok1, InfoOK,
                           List(<<Item(None, Str(<<"9">>), UpName),
                                  Item(Str(<<"3", ",", "4">>), Str(<<"9">>), UpName)>>)))}
    \cup {Http(200, V3List(Ok1, InfoOK, List(<<Item(l, a, UpName)>>)))
          : l \in LocValues, a \in AdcodeValues}

GeoResponses == ListResponses
PoiResponses == ListResponses

----------------------------------------------------------------------------
(* _resolve_location (amap.py:19-42) *)

Returns(val) == [done |-> TRUE, val |-> val]
GoesOn == [done |-> FALSE]

\* lines 21-23: the part before the first request
ResolveSync(input_str) ==
    IF ~Truthy(input_str) THEN Returns(<<None, None, None>>)
    ELSE IF CoordRegex(strip(input_str.v))
         THEN Returns(<<Str(strip(input_str.v)), None, input_str>>)
         ELSE GoesOn

\* lines 29-30 and 38-39: the guard and the [0] of a try body.  Whatever
\* raises inside the try (json() on a non-JSON body, .get on a non-object,
\* None[0], [][0]) is swallowed by the bare except and counts as no result.
FirstResult(resp) ==
    IF /\ resp.kind = "http"
       /\ resp.code = 200
       /\ resp.body.json = "object"
       /\ resp.body.status = Ok1
       /\ resp.body.items.kind = "list"
       /\ resp.body.items.list # <<>>
       /\ resp.body.items.list[1].obj
    THEN [ok |-> TRUE, item |-> resp.body.items.list[1]]
    ELSE [ok |-> FALSE]

\* lines 26-27
geo_params(input_str, city) ==
    IF Truthy(city)
    THEN [key |-> AMAP_API_KEY, address |-> input_str, output |-> "JSON", city |-> city]
    ELSE [key |-> AMAP_API_KEY, address |-> input_str, output |-> "JSON"]

\* lines 35-36
poi_params(input_str, city) ==
    IF Truthy(city)
    THEN [key |-> AMAP_API_KEY, keywords |-> input_str, citylimit |-> "true",
          offset |-> 1, city |-> city]
    ELSE [key |-> AMAP_API_KEY, keywords |-> input_str, citylimit |-> "false",
          offset |-> 1]

Request(host, path, params, s) ==
    [host |-> host, path |-> path, params |-> params, side |-> s]

GeoRequest(input_str, city, s) ==
    Request(AMAP_API_HOST, "/geocode/geo", geo_params(input_str, city), s)
PoiRequest(input_str, city, s) ==
    Request(AMAP_API_HOST, "/place/text", poi_params(input_str, city), s)

\* lines 28-32: the geocode response either ends the resolution or not
GeoStepMutAlwaysFallback(resp) == GoesOn

GeoStepMutGiveUpOnException(resp) ==
    LET r == FirstResult(resp)
    IN IF resp.kind = "exc" THEN Returns(<<None, None, None>>)
       ELSE IF r.ok THEN Returns(<<r.item.location, r.item.adcode, r.item.name>>)
       ELSE GoesOn

GeoStep(resp) ==
    LET r == FirstResult(resp)
    IN IF r.ok THEN Returns(<<r.item.location, r.item.adcode, r.item.name>>)
       ELSE GoesOn

\* lines 37-42: the POI response always ends the resolution
PoiStep(resp, input_str) ==
    LET r == FirstResult(resp)
    IN IF r.ok THEN <<r.item.location, r.item.adcode, r.item.name>>
       ELSE <<None, None, input_str>>

----------------------------------------------------------------------------
(* The invocation as a state machine *)

\* the configuration of the invocation, as one record
Cur == [pc |-> pc, side |-> side, inflight |-> inflight, log |-> log,
        locals |-> locals, result |-> result]

Become(c) ==
    /\ pc' = c.pc
    /\ side' = c.side
    /\ inflight' = c.inflight
    /\ log' = c.log
    /\ locals' = c.locals
    /\ result' = c.result

SendEvent(req) == [ev |-> "send", req |-> req]
\* returned: whether the step that consumed the response left the resolver
\* with the first result of that response
RecvEvent(req, returned) == [ev |-> "recv", req |-> req, returned |-> returned]

\* await client.get(...): the coroutine is suspended until the response
Send(c, pc2, req) ==
    [c EXCEPT !.pc = pc2, !.side = req.side, !.inflight = {req},
              !.log = Append(@, SendEvent(req))]

\* the response to req has arrived
Recv(c, req, returned) ==
    [c EXCEPT !.inflight = @ \ {req}, !.log = Append(@, RecvEvent(req, returned))]

\* return <value> / an exception leaving the handler
Finish(c, res) == [c EXCEPT !.pc = "done", !.side = "-", !.result = res]

NoKeyText == Text(<<Lit("Error: No API Key")>>)
\* amap.py:313 "(x) cuo wu: wei pei zhi AMAP_API_KEY."
PoiNoKeyText == Text(<<Lit("[X] error: AMAP_API_KEY not configured.")>>)

KeyValues == {None, Str(<<>>), Str(<<"k">>)}
Cities == {Str(<<>>), Str(<<"c">>)}

\* places given to plan_route, and added to the exhaustive Strings(MaxLen)
\* for geocode_address
Places == {<<>>, <<"a">>, <<"1", ",", "2">>, <<"-", "1", ".", "5", ",", "2">>,
           <<" ", "-", "1", ".", "5", ",", "2", ".", "5", " ">>}

NoLast == [req |-> [side |-> "-"], resp |-> Exc("-")]

\* tavily.py:12: [k.strip() for k in env_keys.split(",") if k.strip()]
KeyPoolOf(env_keys) ==
    LET parts == split_comma(env_keys)
        kept == {i \in 1..Len(parts) : strip(parts[i]) # <<>>}
        Nth(n) == CHOOSE i \in kept : Cardinality({j \in kept : j < i}) = n - 1
    IN [n \in 1..Cardinality(kept) |-> strip(parts[Nth(n)])]

\* values of TAVILY_API_KEYS: unset, one key, two keys, two keys with blanks
\* and an empty entry
EnvKeys == {<<>>, <<"a">>, <<"a", ",", "1">>, <<" ", "a", ",", " ", ",", "1", " ">>}

Invocations == 1..NumInvocations

WebIdle == [pc |-> "idle", args |-> [op |-> "-"], sent |-> <<>>, recvd |-> <<>>,
            result |-> NoResult]

\* no map operation has been invoked
MapIdle ==
    /\ call = [op |-> "-"]
    /\ pc = "idle"
    /\ side = "-"
    /\ inflight = {}
    /\ log = <<>>
    /\ last = NoLast
    /\ locals = [op |-> "-"]
    /\ result = NoResult

\* tavily.py:13, and no web_search invoked; no formatter applied on its own
SearchIdle ==
    /\ CURRENT_KEY_INDEX = 0
    /\ web = [i \in Invocations |-> WebIdle]
    /\ fmt = [fn |-> "-"]

\* the process after import, for the map operations (TAVILY_API_KEYS unset)
Init ==
    /\ AMAP_API_KEY \in KeyValues
    /\ MapIdle
    /\ KEY_POOL = KeyPoolOf(<<>>)
    /\ SearchIdle

\* the process after import, for web_search (AMAP_API_KEY unset)
InitWeb ==
    /\ AMAP_API_KEY = None
    /\ MapIdle
    /\ KEY_POOL \in {KeyPoolOf(e) : e \in EnvKeys}
    /\ SearchIdle

TheRequest == CHOOSE r \in inflight : TRUE

----------------------------------------------------------------------------
(* get_location_by_ip (amap.py:178-185) *)

IpValues == {None, Str(<<"1", ".", "1">>)}

IpBody(province, city) == [json |-> "object", province |-> province, city |-> city]

IpResponses ==
    ExcResponses
    \cup {Http(500, NotJson), Http(200, NotJson), Http(200, JsonArray),
          Http(200, IpBody(Str(<<"P">>), Str(<<"C">>))),
          Http(200, IpBody(EmptyList, EmptyList)),
          Http(500, IpBody(None, None))}

ip_params(ip) ==
    IF Truthy(ip) THEN [key |-> AMAP_API_KEY, ip |-> ip] ELSE [key |-> AMAP_API_KEY]

Call_get_location_by_ip ==
    /\ pc = "idle"
    /\ \E ip \in IpValues :
        /\ call' = [op |-> "get_location_by_ip", ip |-> ip]
        /\ Become(IF ~Truthy(AMAP_API_KEY)
                  THEN Finish(Cur, NoKeyText)
                  ELSE Send(Cur, "await_ip",
                            Request(AMAP_API_HOST, "/ip", ip_params(ip), "-")))
    /\ UNCHANGED <<AMAP_API_KEY, last, KEY_POOL, CURRENT_KEY_INDEX, web, fmt>>

\* lines 183-185: nothing is caught; no status check
IpResult(resp) ==
    IF resp.kind = "exc" THEN Raised(resp.exc)
    ELSE IF resp.body.json = "invalid" THEN Raised("JSONDecodeError")
    ELSE IF resp.body.json = "array" THEN Raised("AttributeError")
    \* "IP ding wei jie guo: "
    ELSE Text(<<Lit("IP location: "), Fmt(resp.body.province), Fmt(resp.body.city)>>)

IpResponse ==
    /\ pc = "await_ip"
    /\ \E resp \in IpResponses :
        /\ last' = [req |-> TheRequest, resp |-> resp]
        /\ Become(Finish(Recv(Cur, TheRequest, FALSE), IpResult(resp)))
    /\ UNCHANGED <<AMAP_API_KEY, call, KEY_POOL, CURRENT_KEY_INDEX, web, fmt>>

----------------------------------------------------------------------------
(* geocode_address (amap.py:187-193) *)

Addresses == Strings(MaxLen) \cup Places

\* lines 192-193
GeocodeText(t) ==
    \* "wei zhao dao gai di zhi"
    IF ~Truthy(t[1]) THEN Text(<<Lit("address not found")>>)
    \* "di zhi: {fmt}\n zuo biao: {loc}\n qu yu dai ma: {code}"
    ELSE Text(<<Lit("address: "), Fmt(t[3]), Lit("\ncoordinate: "), Fmt(t[1]),
                Lit("\nadcode: "), Fmt(t[2])>>)

Call_geocode_address ==
    /\ pc = "idle"
    /\ \E address \in Addresses, city \in {None, Str(<<"c">>)} :
        /\ call' = [op |-> "geocode_address", address |-> Str(address), city |-> city]
        /\ Become(IF ~Truthy(AMAP_API_KEY)
                  THEN Finish(Cur, NoKeyText)
                  ELSE LET r == ResolveSync(Str(address))
                       IN IF r.done
                          THEN Finish([Cur EXCEPT !.locals = [op |-> "geocode_address", res |-> r.val]],
                                      GeocodeText(r.val))
                          ELSE Send(Cur, "await_geo", GeoRequest(Str(address), city, "addr")))
    /\ UNCHANGED <<AMAP_API_KEY, last, KEY_POOL, CURRENT_KEY_INDEX, web, fmt>>

----------------------------------------------------------------------------
(* regeocode_location (amap.py:195-205) *)

RegeoLocations == {<<"3", "9", ",", "1", "1", "6">>, <<"1", "1", "6", ",", "3", "9">>,
                   <<"1", ",", "2">>, <<"a", ",", "9", "9">>, <<"1", ",", "2", ",", "3">>,
                   <<>>}

\* lines 198-201: swap "lat,lon" into "lon,lat"; any ValueError leaves it alone
FixLocation(location) ==
    LET p == split_comma(location)
    IN IF Len(p) # 2 THEN location
       ELSE IF ~float(p[1]).ok \/ ~float(p[2]).ok THEN location
       ELSE IF FloatLess(float(p[1]), float(p[2]))
               /\ FloatLess([ok |-> TRUE, num |-> 60, scale |-> 0], float(p[2]))
            THEN p[2] \o <<",">> \o p[1]
            ELSE location

RegeoBody(regeocode) == [json |-> "object", regeocode |-> regeocode]
RegeoObject(fa) == [kind |-> "object", formatted_address |-> fa]

RegeoResponses ==
    ExcResponses
    \cup {Http(500, NotJson), Http(200, NotJson), Http(200, JsonArray),
          Http(200, RegeoBody(RegeoObject(Str(<<"F">>)))),
          Http(200, RegeoBody(RegeoObject(EmptyList))),
          Http(200, RegeoBody(Missing)),
          Http(200, RegeoBody(List(<<>>)))}

regeo_params(location) ==
    [key |-> AMAP_API_KEY, location |-> location, extensions |-> "base", output |-> "JSON"]

Call_regeocode_location ==
    /\ pc = "idle"
    /\ \E location \in RegeoLocations :
        /\ call' = [op |-> "regeocode_location", location |-> Str(location)]
        /\ Become(IF ~Truthy(AMAP_API_KEY)
                  THEN Finish(Cur, NoKeyText)
                  ELSE Send(Cur, "await_regeo",
                            Request(AMAP_API_HOST, "/geocode/regeo",
                                    regeo_params(Str(FixLocation(location))), "-")))
    /\ UNCHANGED <<AMAP_API_KEY, last, KEY_POOL, CURRENT_KEY_INDEX, web, fmt>>

\* lines 204-205: nothing is caught
RegeoResult(resp) ==
    IF resp.kind = "exc" THEN Raised(resp.exc)
    ELSE IF resp.body.json = "invalid" THEN Raised("JSONDecodeError")
    ELSE IF resp.body.json = "array" THEN Raised("AttributeError")
    ELSE IF resp.body.regeocode.kind = "list" THEN Raised("AttributeError")
    \* "wei zhi jie xi: "
    ELSE Text(<<Lit("location: "),
                Fmt(IF resp.body.regeocode.kind = "missing" THEN None
                    ELSE resp.body.regeocode.formatted_address)>>)

RegeoResponse ==
    /\ pc = "await_regeo"
    /\ \E resp \in RegeoResponses :
        /\ last' = [req |-> TheRequest, resp |-> resp]
        /\ Become(Finish(Recv(Cur, TheRequest, FALSE), RegeoResult(resp)))
    /\ UNCHANGED <<AMAP_API_KEY, call, KEY_POOL, CURRENT_KEY_INDEX, web, fmt>>

----------------------------------------------------------------------------
(* Numbers in upstream payloads: the upstream sends them as strings *)

PyInt(n) == [t |-> "int", v |-> <<>>, n |-> n]

Good(x) == [ok |-> TRUE, val |-> x]
Bad(e) == [ok |-> FALSE, exc |-> e]

\* dict.get(key, default) on a key that may be missing
Get(v, default) == IF v = None THEN default ELSE v

\* the integer written in t (already stripped)
ParseInt(t) ==
    LET signed == t # <<>> /\ t[1] \in {"-", "+"}
        body == IF signed THEN Tail(t) ELSE t
    IN IF body # <<>> /\ \A i \in 1..Len(body) : IsDigit(body[i])
       THEN Good((IF signed /\ t[1] = "-" THEN -1 ELSE 1) * NatOf(body))
       ELSE Bad("ValueError")

\* int(x)
int(x) ==
    IF x.t = "int" THEN Good(x.n)
    ELSE IF x.t # "str" THEN Bad("TypeError")
    ELSE ParseInt(strip(x.v))

FloatOrValueError(f) == IF f.ok THEN Good(f) ELSE Bad("ValueError")

\* float(x), as sign * num / 10^scale
tofloat(x) ==
    IF x.t = "int" THEN Good([ok |-> TRUE, num |-> x.n, scale |-> 0])
    ELSE IF x.t # "str" THEN Bad("TypeError")
    ELSE FloatOrValueError(float(x.v))

\* the sequence of the texts of parts, or the first failure among them
RECURSIVE Concat(_)
Concat(parts) ==
    IF parts = <<>> THEN Good(<<>>)
    ELSE IF ~Head(parts).ok THEN Head(parts)
    ELSE IF ~Concat(Tail(parts)).ok THEN Concat(Tail(parts))
    ELSE Good(Head(parts).val \o Concat(Tail(parts)).val)

\* lines 46-49 on the value of int(seconds);  "fen zhong" = min, "xiao shi" = h
FmtMinutesMutHourLate(n) ==
    IF ~n.ok THEN n
    ELSE IF n.val \div 60 <= 60 THEN Good(<<FmtInt(n.val \div 60), Lit("min")>>)
    ELSE Good(<<FmtInt((n.val \div 60) \div 60), Lit("h"),
                FmtInt((n.val \div 60) % 60), Lit("min")>>)

FmtMinutes(n) ==
    IF ~n.ok THEN n
    ELSE IF n.val \div 60 < 60 THEN Good(<<FmtInt(n.val \div 60), Lit("min")>>)
    ELSE Good(<<FmtInt((n.val \div 60) \div 60), Lit("h"),
                FmtInt((n.val \div 60) % 60), Lit("min")>>)

\* _fmt_time (amap.py:44-49)
_fmt_time(seconds) == FmtMinutes(int(seconds))

RECURSIVE BitLen(_)
BitLen(i) == IF i = 0 THEN 0 ELSE 1 + BitLen(i \div 2)

\* the remainder of r / 1000 after n more binary digits of the quotient
RECURSIVE Doubled(_, _)
Doubled(r, n) == IF n = 0 THEN r ELSE Doubled((2 * r) % 1000, n - 1)

\* m / 1000 in binary floating point (53 significant bits, round to
\* nearest): 1 when the float is above the exact quotient, -1 when it is
\* below, 0 when the quotient is exact; m an integer, m >= 1000
QuotientError(m) ==
    IF Doubled(m % 1000, 53 - BitLen(m \div 1000)) = 0 THEN 0
    ELSE IF 2 * Doubled(m % 1000, 53 - BitLen(m \div 1000)) > 1000 THEN 1
    ELSE -1

\* a quotient whose exact value is q tenths and a half: the float decides,
\* and an exact half goes to the even tenth
TieTenths(q, e) ==
    IF e > 0 THEN q + 1
    ELSE IF e < 0 THEN q
    ELSE IF q % 2 = 0 THEN q ELSE q + 1

\* f"{x:.1f}" of x = num / den, den = 1000 * 10^scale: the tenths nearest
\* to the float x
Tenths(num, den) ==
    LET q == (10 * num) \div den
        r == (10 * num) % den
    IN IF 2 * r < den THEN q
       ELSE IF 2 * r > den THEN q + 1
       ELSE TieTenths(q, QuotientError(num \div (den \div 1000)))

\* lines 54-55 on the value of float(meters);  "mi" = m, "gong li" = km
FmtMetersMutThousandInMetres(f) ==
    IF ~f.ok THEN f
    ELSE IF f.val.num <= 1000 * Pow10(f.val.scale)
    \* int(m) truncates towards zero
    THEN Good(<<FmtInt(IF f.val.num >= 0 THEN f.val.num \div Pow10(f.val.scale)
                       ELSE -((-f.val.num) \div Pow10(f.val.scale))),
                Lit("m")>>)
    ELSE Good(<<[tenths |-> Tenths(f.val.num, 1000 * Pow10(f.val.scale))], Lit("km")>>)

FmtMeters(f) ==
    IF ~f.ok THEN f
    ELSE IF f.val.num < 1000 * Pow10(f.val.scale)
    \* int(m) truncates towards zero
    THEN Good(<<FmtInt(IF f.val.num >= 0 THEN f.val.num \div Pow10(f.val.scale)
                       ELSE -((-f.val.num) \div Pow10(f.val.scale))),
                Lit("m")>>)
    ELSE Good(<<[tenths |-> Tenths(f.val.num, 1000 * Pow10(f.val.scale))], Lit("km")>>)

\* _fmt_dist (amap.py:51-55)
_fmt_dist(meters) == FmtMeters(tofloat(meters))

----------------------------------------------------------------------------
(* _format_nav_text (amap.py:59-117) *)

\* needle in hay
Contains(hay, needle) ==
    \E i \in 1..(Len(hay) - Len(needle) + 1) :
        SubSeq(hay, i, i + Len(needle) - 1) = needle

\* the characters the narrator looks for, in ASCII:
\*   "X" = xiang (towards), "M" = mi (metre), "G","L" = gong li (kilometre),
\*   "Y" = yan (along), "H","S" = xing shi (drive)
Step(instruction, road, distance, assistant_action) ==
    [instruction |-> instruction, road |-> road, distance |-> distance,
     assistant_action |-> assistant_action]

\* the step with the distance tokens looked for in the instruction alone
StepLineMutChecksInstruction(i, s) ==
    LET instr == s.instruction
        road == s.road
        dist_val == Get(s.distance, Str(<<"0">>))
        d1 == IF Truthy(road) /\ ~Contains(instr, road.v)
              THEN IF Contains(instr, <<"X">>)
                   THEN instr \o <<" ", "(", "Y">> \o road.v \o <<")">>
                   ELSE instr \o <<",", "Y">> \o road.v \o <<"H", "S">>
              ELSE instr
        needs == ~Contains(instr, <<"M">>) /\ ~Contains(instr, <<"G", "L">>)
        n == int(dist_val)
        d2 == IF needs /\ n.ok /\ n.val > 0
              \* f" {dist_val}mi": the value as it came, a string or a number
              THEN d1 \o <<" ">>
                      \o (IF dist_val.t = "int" THEN DigitsOf(dist_val.n) ELSE dist_val.v)
                      \o <<"M">>
              ELSE d1
        d3 == IF Truthy(s.assistant_action)
              THEN d2 \o <<" ", "(">> \o s.assistant_action.v \o <<")">>
              ELSE d2
    IN IF needs /\ ~n.ok THEN n
       ELSE Good(<<FmtInt(i), Lit(". "), Fmt(Str(d3))>>)

\* the step with the road appended even when the instruction names it
StepLineMutAlwaysRoad(i, s) ==
    LET instr == s.instruction
        road == s.road
        dist_val == Get(s.distance, Str(<<"0">>))
        d1 == IF Truthy(road)
              THEN IF Contains(instr, <<"X">>)
                   THEN instr \o <<" ", "(", "Y">> \o road.v \o <<")">>
                   ELSE instr \o <<",", "Y">> \o road.v \o <<"H", "S">>
              ELSE instr
        needs == ~Contains(d1, <<"M">>) /\ ~Contains(d1, <<"G", "L">>)
        n == int(dist_val)
        d2 == IF needs /\ n.ok /\ n.val > 0
              \* f" {dist_val}mi": the value as it came, a string or a number
              THEN d1 \o <<" ">>
                      \o (IF dist_val.t = "int" THEN DigitsOf(dist_val.n) ELSE dist_val.v)
                      \o <<"M">>
              ELSE d1
        d3 == IF Truthy(s.assistant_action)
              THEN d2 \o <<" ", "(">> \o s.assistant_action.v \o <<")">>
              ELSE d2
    IN IF needs /\ ~n.ok THEN n
       ELSE Good(<<FmtInt(i), Lit(". "), Fmt(Str(d3))>>)

\* lines 90-115, one step
StepLine(i, s) ==
    LET instr == s.instruction
        road == s.road
        dist_val == Get(s.distance, Str(<<"0">>))
        d1 == IF Truthy(road) /\ ~Contains(instr, road.v)
              THEN IF Contains(instr, <<"X">>)
                   THEN instr \o <<" ", "(", "Y">> \o road.v \o <<")">>
                   ELSE instr \o <<",", "Y">> \o road.v \o <<"H", "S">>
              ELSE instr
        needs == ~Contains(d1, <<"M">>) /\ ~Contains(d1, <<"G", "L">>)
        n == int(dist_val)
        d2 == IF needs /\ n.ok /\ n.val > 0
              \* f" {dist_val}mi": the value as it came, a string or a number
              THEN d1 \o <<" ">>
                      \o (IF dist_val.t = "int" THEN DigitsOf(dist_val.n) ELSE dist_val.v)
                      \o <<"M">>
              ELSE d1
        d3 == IF Truthy(s.assistant_action)
              THEN d2 \o <<" ", "(">> \o s.assistant_action.v \o <<")">>
              ELSE d2
    IN IF needs /\ ~n.ok THEN n
       ELSE Good(<<FmtInt(i), Lit(". "), Fmt(Str(d3))>>)

Path(duration, distance, traffic_lights, tolls, restriction, steps) ==
    [duration |-> duration, distance |-> distance, traffic_lights |-> traffic_lights,
     tolls |-> tolls, restriction |-> restriction, steps |-> steps]

NavIconMutNoCar(mode) ==
    IF mode = "walking" THEN "(walker)" ELSE "(bike)"

NavIcon(mode) ==
    IF mode = "driving" THEN "(car)" ELSE IF mode = "walking" THEN "(walker)" ELSE "(bike)"

_format_nav_text(mode, path_data) ==
    LET dur == _fmt_time(Get(path_data.duration, PyInt(0)))
        dist == _fmt_dist(Get(path_data.distance, PyInt(0)))
        \* f"{icon} [{mode} dao hang]"
        title == Good(<<Lit(NavIcon(mode)), Lit(" ["), [fstr |-> mode], Lit(" navigation]")>>)
        driving == IF mode = "driving"
                   THEN <<Lit(" | lights: "), Fmt(Get(path_data.traffic_lights, Str(<<"0">>))),
                          Lit(" | tolls: "), Fmt(Get(path_data.tolls, Str(<<"0">>)))>>
                        \o (IF path_data.restriction = Str(<<"1">>)
                            THEN <<Lit(" (restricted area)")>> ELSE <<>>)
                   ELSE <<>>
        head == <<Lit("\n"), Lit("--------------------"), Lit("\n"), Lit("route detail:")>>
        lines == [i \in 1..Len(path_data.steps) |->
                    LET l == StepLine(i, path_data.steps[i])
                    IN IF l.ok THEN Good(<<Lit("\n")>> \o l.val) ELSE l]
    IN IF ~dur.ok THEN dur
       ELSE IF ~dist.ok THEN dist
       ELSE Concat(<<title, Good(<<Lit("\n"), Lit("total time: ")>>), dur,
                     Good(<<Lit(" | total distance: ")>>), dist, Good(driving), Good(head)>>
                   \o lines)

----------------------------------------------------------------------------
(* _format_transit_text (amap.py:119-174) *)

Obj(fields) == [kind |-> "object", f |-> fields]

Busline(name, dep, arr, num_stops) ==
    [name |-> name, departure_stop |-> dep, arrival_stop |-> arr, num_stops |-> num_stops]

\* a segment carries any of the keys "bus", "railway", "walking"
Segment(bus, railway, walking) == [bus |-> bus, railway |-> railway, walking |-> walking]
Bus(buslines) == Obj([buslines |-> buslines])
Railway(name, dep, arr) == Obj([name |-> name, departure_stop |-> dep, arrival_stop |-> arr])
Walking(distance) == Obj([distance |-> distance])
Stop(name) == Obj([name |-> name])

\* x.get(key, {}).get("name", default) on the value under key: None when
\* the key is missing; a value that is no object has no get
StopName(stop, default) ==
    IF stop = None THEN Good(default)
    ELSE IF "kind" \in DOMAIN stop /\ stop.kind = "object" THEN Good(Get(stop.f.name, default))
    ELSE Bad("AttributeError")

Plan(duration, cost, walking_distance, segments) ==
    [duration |-> duration, cost |-> cost, walking_distance |-> walking_distance,
     segments |-> segments]

\* the name as it came, not cut
BeforeParenMutWhole(s) == s

\* s.split('(')[0]
BeforeParen(s) ==
    LET ps == {i \in 1..Len(s) : s[i] = "("}
    IN IF ps = {} THEN s
       ELSE SubSeq(s, 1, (CHOOSE i \in ps : \A j \in ps : i <= j) - 1)

\* which branch of lines 144-165 the segment takes: "bus", "railway",
\* "walking" (tested, then shown or not), or "none"
SegmentKind(seg) ==
    IF seg.bus.kind = "object" /\ seg.bus.f.buslines # <<>> THEN "bus"
    ELSE IF seg.railway.kind = "object" /\ Truthy(seg.railway.f.name) THEN "railway"
    ELSE IF seg.walking.kind = "object" THEN "walking"
    ELSE "none"

WalkThreshold == 50

\* the segment with a walk of exactly 50 metres shown too
SegmentTextMutFromFifty(seg) ==
    LET k == SegmentKind(seg)
    IN IF k = "bus"
       THEN LET b == seg.bus.f.buslines[1]
                line == Fmt(Str(BeforeParen(b.name)))
                dep == StopName(b.departure_stop, Str(<<"s", "t", "a", "r", "t">>))
                arr == StopName(b.arrival_stop, Str(<<"e", "n", "d">>))
            IN IF ~dep.ok THEN dep
               ELSE IF ~arr.ok THEN arr
               ELSE Good([chain |-> <<line>>,
                     \* "cheng {line}: {dep} shang che -> {arr} xia che (zuo {stops} zhan)"
                     detail |-> <<<<Lit("  * bus "), line, Lit(": "), Fmt(dep.val),
                                    Lit(" on -> "), Fmt(arr.val),
                                    Lit(" off ("), Fmt(Get(b.num_stops, Str(<<"-", "-">>))),
                                    Lit(" stops)")>>>>])
       ELSE IF k = "railway"
       THEN LET r == seg.railway.f
                dep == StopName(r.departure_stop, None)
                arr == StopName(r.arrival_stop, None)
            IN IF ~dep.ok THEN dep
               ELSE IF ~arr.ok THEN arr
               ELSE Good([chain |-> <<Fmt(r.name)>>,
                     detail |-> <<<<Lit("  * rail "), Fmt(r.name), Lit(": "),
                                    Fmt(dep.val), Lit(" -> "), Fmt(arr.val)>>>>])
       ELSE IF k = "walking"
       THEN LET n == int(Get(seg.walking.f.distance, PyInt(0)))
            IN IF ~n.ok THEN n
               ELSE IF n.val >= WalkThreshold
               \* seg["walking"]["distance"]: the key itself, no default
               THEN LET d == _fmt_dist(seg.walking.f.distance)
                    IN IF ~d.ok THEN d
                       ELSE Good([chain |-> <<>>,
                                  detail |-> <<<<Lit("  * walk ")>> \o d.val>>])
               ELSE Good([chain |-> <<>>, detail |-> <<>>])
       ELSE Good([chain |-> <<>>, detail |-> <<>>])

\* lines 144-165: [chain, detail] of one segment, or the exception raised
SegmentText(seg) ==
    LET k == SegmentKind(seg)
    IN IF k = "bus"
       THEN LET b == seg.bus.f.buslines[1]
                line == Fmt(Str(BeforeParen(b.name)))
                dep == StopName(b.departure_stop, Str(<<"s", "t", "a", "r", "t">>))
                arr == StopName(b.arrival_stop, Str(<<"e", "n", "d">>))
            IN IF ~dep.ok THEN dep
               ELSE IF ~arr.ok THEN arr
               ELSE Good([chain |-> <<line>>,
                     \* "cheng {line}: {dep} shang che -> {arr} xia che (zuo {stops} zhan)"
                     detail |-> <<<<Lit("  * bus "), line, Lit(": "), Fmt(dep.val),
                                    Lit(" on -> "), Fmt(arr.val),
                                    Lit(" off ("), Fmt(Get(b.num_stops, Str(<<"-", "-">>))),
                                    Lit(" stops)")>>>>])
       ELSE IF k = "railway"
       THEN LET r == seg.railway.f
                dep == StopName(r.departure_stop, None)
                arr == StopName(r.arrival_stop, None)
            IN IF ~dep.ok THEN dep
               ELSE IF ~arr.ok THEN arr
               ELSE Good([chain |-> <<Fmt(r.name)>>,
                     detail |-> <<<<Lit("  * rail "), Fmt(r.name), Lit(": "),
                                    Fmt(dep.val), Lit(" -> "), Fmt(arr.val)>>>>])
       ELSE IF k = "walking"
       THEN LET n == int(Get(seg.walking.f.distance, PyInt(0)))
            IN IF ~n.ok THEN n
               ELSE IF n.val > WalkThreshold
               \* seg["walking"]["distance"]: the key itself, no default
               THEN LET d == _fmt_dist(seg.walking.f.distance)
                    IN IF ~d.ok THEN d
                       ELSE Good([chain |-> <<>>,
                                  detail |-> <<<<Lit("  * walk ")>> \o d.val>>])
               ELSE Good([chain |-> <<>>, detail |-> <<>>])
       ELSE Good([chain |-> <<>>, detail |-> <<>>])

\* ' -> '.join(chain)
RECURSIVE Join(_)
Join(chain) ==
    IF chain = <<>> THEN <<>>
    ELSE IF Len(chain) = 1 THEN <<chain[1]>>
    ELSE <<chain[1], Lit(" -> ")>> \o Join(Tail(chain))

RECURSIVE Flatten(_)
Flatten(ss) == IF ss = <<>> THEN <<>> ELSE Head(ss) \o Flatten(Tail(ss))

MaxPlans == 3

\* lines 127-172, the plan at position idx (from 0)
PlanText(idx, t) ==
    LET dur == _fmt_time(Get(t.duration, PyInt(0)))
        cost == tofloat(Get(t.cost, PyInt(0)))
        walk == _fmt_dist(Get(t.walking_distance, PyInt(0)))
        segs == [i \in 1..Len(t.segments) |-> SegmentText(t.segments[i])]
        bad == {i \in 1..Len(segs) : ~segs[i].ok}
        chain == Flatten([i \in 1..Len(segs) |-> segs[i].val.chain])
        details == Flatten([i \in 1..Len(segs) |-> segs[i].val.detail])
    IN IF ~dur.ok THEN dur
       ELSE IF ~cost.ok THEN cost
       ELSE IF ~walk.ok THEN walk
       ELSE IF bad # {} THEN segs[CHOOSE i \in bad : \A j \in bad : i <= j]
       ELSE Good(<<Lit("\n"), Lit("\n"), Lit("=== plan "), FmtInt(idx + 1), Lit(" (")>>
                 \o dur.val
                 \o <<Lit(") ==="), Lit("\n"), Lit("fare: "),
                      [float |-> cost.val], Lit(" | walk: ")>>
                 \o walk.val
                 \o <<Lit("\n"), Lit("route: ")>> \o Join(chain)
                 \o (IF idx = 0
                     THEN <<Lit("\n"), Lit("steps:")>>
                          \o Flatten([i \in 1..Len(details) |-> <<Lit("\n")>> \o details[i]])
                     ELSE <<>>))

_format_transit_textMutNoCap(transits) ==
    IF transits = <<>> THEN Good(<<Lit("no transit plan found")>>)
    ELSE Concat(<<Good(<<Lit("(bus) [transit navigation] (Top3)")>>)>>
                \o [i \in 1..Len(transits) |-> PlanText(i - 1, transits[i])])

_format_transit_text(transits) ==
    \* "wei zhao dao gong jiao fang an"
    IF transits = <<>> THEN Good(<<Lit("no transit plan found")>>)
    ELSE LET shown == SubSeq(transits, 1, IF Len(transits) < MaxPlans THEN Len(transits) ELSE MaxPlans)
         IN Concat(<<Good(<<Lit("(bus) [transit navigation] (Top3)")>>)>>
                   \o [i \in 1..Len(shown) |-> PlanText(i - 1, shown[i])])

----------------------------------------------------------------------------
(* plan_route (amap.py:207-285) *)

SupportedModes == {"driving", "walking", "transit", "bicycling"}
Aliases == {"car", "walk", "bike", "ride", "cycling", "bus", "subway"}
OtherModes == {"fly", "Driving", ""}
Modes == SupportedModes \cup Aliases \cup OtherModes

\* lines 220-225
mode_config ==
    [m \in SupportedModes |->
        IF m = "bicycling" THEN [ver |-> "v4", url |-> "/direction/bicycling"]
        ELSE IF m = "driving" THEN [ver |-> "v3", url |-> "/direction/driving"]
        ELSE IF m = "walking" THEN [ver |-> "v3", url |-> "/direction/walking"]
        ELSE [ver |-> "v3", url |-> "/direction/transit/integrated"]]

\* lines 228-231: four ifs in a row, each on the value the previous one left
NormalizeModeMutNoRide(mode) ==
    LET m1 == IF mode \in {"car"} THEN "driving" ELSE mode
        m2 == IF m1 \in {"walk"} THEN "walking" ELSE m1
        m3 == IF m2 \in {"bike", "cycling"} THEN "bicycling" ELSE m2
        m4 == IF m3 \in {"bus", "subway"} THEN "transit" ELSE m3
    IN m4

NormalizeMode(mode) ==
    LET m1 == IF mode \in {"car"} THEN "driving" ELSE mode
        m2 == IF m1 \in {"walk"} THEN "walking" ELSE m1
        m3 == IF m2 \in {"bike", "ride", "cycling"} THEN "bicycling" ELSE m2
        m4 == IF m3 \in {"bus", "subway"} THEN "transit" ELSE m3
    IN m4

\* line 234: "bu zhi chi de mo shi: {mode}"
UnsupportedText(mode) == Text(<<Lit("unsupported mode: "), [fstr |-> mode]>>)

\* line 241: "wu fa ding wei qi dian({origin}) huo zhong dian({destination})"
UnresolvedText(origin, destination) ==
    Text(<<Lit("cannot locate "), Lit("origin"), Lit("("), Fmt(origin), Lit(")"),
           Lit(" or "), Lit("destination"), Lit("("), Fmt(destination), Lit(")")>>)

\* line 249: "Beijing" in Chinese characters
DefaultCity == Str(<<"B", "e", "i", "j", "i", "n", "g">>)

DrivingStrategy == 10

\* lines 244-250
route_paramsMutCallerStrategy(mode, ver, ori_loc, des_loc, city, strategy) ==
    IF mode \in {"driving", "transit"}
    THEN LET c == IF Truthy(city) THEN city ELSE DefaultCity
         IN IF mode = "driving"
            THEN [key |-> AMAP_API_KEY, origin |-> ori_loc, destination |-> des_loc,
                  output |-> "JSON", extensions |-> "all", strategy |-> strategy]
            ELSE [key |-> AMAP_API_KEY, origin |-> ori_loc, destination |-> des_loc,
                  output |-> "JSON", extensions |-> "all",
                  city |-> c, cityd |-> c, strategy |-> strategy]
    ELSE IF ver = "v3"
    THEN [key |-> AMAP_API_KEY, origin |-> ori_loc, destination |-> des_loc,
          output |-> "JSON", extensions |-> "all"]
    ELSE [key |-> AMAP_API_KEY, origin |-> ori_loc, destination |-> des_loc]

route_params(mode, ver, ori_loc, des_loc, city, strategy) ==
    IF mode = "driving"
    THEN [key |-> AMAP_API_KEY, origin |-> ori_loc, destination |-> des_loc,
          output |-> "JSON", extensions |-> "all", strategy |-> DrivingStrategy]
    ELSE IF mode = "transit"
    THEN LET c == IF Truthy(city) THEN city ELSE DefaultCity
         IN [key |-> AMAP_API_KEY, origin |-> ori_loc, destination |-> des_loc,
             output |-> "JSON", extensions |-> "all",
             city |-> c, cityd |-> c, strategy |-> strategy]
    ELSE IF ver = "v3"
    THEN [key |-> AMAP_API_KEY, origin |-> ori_loc, destination |-> des_loc,
          output |-> "JSON", extensions |-> "all"]
    ELSE [key |-> AMAP_API_KEY, origin |-> ori_loc, destination |-> des_loc]

RouteRequest(mode, ori_loc, des_loc, city, strategy) ==
    LET cfg == mode_config[mode]
    IN Request(IF cfg.ver = "v4" THEN AMAP_API_HOST_V4 ELSE AMAP_API_HOST, cfg.url,
               route_params(mode, cfg.ver, ori_loc, des_loc, city, strategy), "-")

\* the route asked for as soon as the origin has a coordinate
PlanAfterDesMutOriginOnly(c, a, des) ==
    LET c1 == [c EXCEPT !.locals = [op |-> "plan_route", mode |-> @.mode,
                                    ori |-> @.ori, des |-> des]]
    IN IF ~Truthy(c.locals.ori[1])
       THEN Finish(c1, UnresolvedText(a.origin, a.destination))
       ELSE Send(c1, "await_route",
                 RouteRequest(c.locals.mode, c.locals.ori[1], des[1], a.city, a.strategy))

\* lines 239-252, from the return of the destination's resolution;
\* a: the arguments of the call
PlanAfterDes(c, a, des) ==
    LET c1 == [c EXCEPT !.locals = [op |-> "plan_route", mode |-> @.mode,
                                    ori |-> @.ori, des |-> des]]
    IN IF ~Truthy(c.locals.ori[1]) \/ ~Truthy(des[1])
       THEN Finish(c1, UnresolvedText(a.origin, a.destination))
       ELSE Send(c1, "await_route",
                 RouteRequest(c.locals.mode, c.locals.ori[1], des[1], a.city, a.strategy))

\* lines 238-239, from the return of the origin's resolution
PlanAfterOri(c, a, ori) ==
    LET c1 == [c EXCEPT !.locals = [op |-> "plan_route", mode |-> @.mode, ori |-> ori]]
        r == ResolveSync(a.destination)
    IN IF r.done THEN PlanAfterDes(c1, a, r.val)
       ELSE Send(c1, "await_geo", GeoRequest(a.destination, a.city, "des"))

\* lines 218-238, from the entry
PlanRouteEntryMutModeFirst(c, a) ==
    LET m == NormalizeMode(a.mode)
        c1 == [c EXCEPT !.locals = [op |-> "plan_route", mode |-> m]]
        r == ResolveSync(a.origin)
    IN IF m \notin DOMAIN mode_config THEN Finish(c1, UnsupportedText(m))
       ELSE IF ~Truthy(AMAP_API_KEY) THEN Finish(c, NoKeyText)
       ELSE IF r.done THEN PlanAfterOri(c1, a, r.val)
       ELSE Send(c1, "await_geo", GeoRequest(a.origin, a.city, "ori"))

PlanRouteEntryMutResolveFirst(c, a) ==
    LET m == NormalizeMode(a.mode)
        c1 == [c EXCEPT !.locals = [op |-> "plan_route", mode |-> m]]
        r == ResolveSync(a.origin)
    IN IF ~Truthy(AMAP_API_KEY) THEN Finish(c, NoKeyText)
       ELSE IF ~r.done THEN Send(c1, "await_geo", GeoRequest(a.origin, a.city, "ori"))
       ELSE IF m \notin DOMAIN mode_config THEN Finish(c1, UnsupportedText(m))
       ELSE PlanAfterOri(c1, a, r.val)

PlanRouteEntry(c, a) ==
    LET m == NormalizeMode(a.mode)
        c1 == [c EXCEPT !.locals = [op |-> "plan_route", mode |-> m]]
        r == ResolveSync(a.origin)
    IN IF ~Truthy(AMAP_API_KEY) THEN Finish(c, NoKeyText)
       ELSE IF m \notin DOMAIN mode_config THEN Finish(c1, UnsupportedText(m))
       ELSE IF r.done THEN PlanAfterOri(c1, a, r.val)
       ELSE Send(c1, "await_geo", GeoRequest(a.origin, a.city, "ori"))

Strategies == {0, 3}

PlanRouteArgs ==
    [op : {"plan_route"}, origin : {Str(p) : p \in Places},
     destination : {Str(p) : p \in Places}, mode : Modes, city : Cities,
     strategy : Strategies]

Call_plan_route ==
    /\ pc = "idle"
    /\ \E args \in PlanRouteArgs :
        /\ call' = args
        /\ Become(PlanRouteEntry(Cur, args))
    /\ UNCHANGED <<AMAP_API_KEY, last, KEY_POOL, CURRENT_KEY_INDEX, web, fmt>>

----------------------------------------------------------------------------
(* The two awaits of _resolve_location, for whichever operation called it *)

CurrentInput ==
    IF side = "addr" THEN call.address
    ELSE IF side = "ori" THEN call.origin
    ELSE call.destination

\* the resolver returns to its caller
ResolveReturned(c, t) ==
    IF call.op = "geocode_address"
    THEN Finish([c EXCEPT !.locals = [op |-> "geocode_address", res |-> t]], GeocodeText(t))
    ELSE IF c.side = "ori" THEN PlanAfterOri(c, call, t)
    ELSE PlanAfterDes(c, call, t)

GeoResponse ==
    /\ pc = "await_geo"
    /\ UNCHANGED <<AMAP_API_KEY, call, KEY_POOL, CURRENT_KEY_INDEX, web, fmt>>
    /\ \E resp \in GeoResponses :
        /\ last' = [req |-> TheRequest, resp |-> resp]
        /\ LET g == GeoStep(resp)
               c1 == Recv(Cur, TheRequest, g.done)
           IN Become(IF g.done THEN ResolveReturned(c1, g.val)
                     ELSE Send(c1, "await_poi", PoiRequest(CurrentInput, call.city, side)))

PoiResponse ==
    /\ pc = "await_poi"
    /\ UNCHANGED <<AMAP_API_KEY, call, KEY_POOL, CURRENT_KEY_INDEX, web, fmt>>
    /\ \E resp \in PoiResponses :
        /\ last' = [req |-> TheRequest, resp |-> resp]
        /\ Become(ResolveReturned(Recv(Cur, TheRequest, FirstResult(resp).ok),
                                  PoiStep(resp, CurrentInput)))

----------------------------------------------------------------------------
(* plan_route, the route response (amap.py:252-285) *)

RouteBody(status, info, errcode, errmsg, route, data) ==
    [json |-> "object", status |-> status, info |-> info, errcode |-> errcode,
     errmsg |-> errmsg, route |-> route, data |-> data]
Route(paths, transits) == Obj([paths |-> paths, transits |-> transits])
Data(paths) == Obj([paths |-> paths])

StepA == Step(<<"X", "n">>, Str(<<"r">>), Str(<<"5", "0">>), EmptyList)
StepB == Step(<<"g", "o", "9", "M">>, EmptyList, Str(<<"9">>), Str(<<"z">>))
PathA == Path(Str(<<"1", "2", "5">>), Str(<<"8", "5", "0">>), Str(<<"2">>), Str(<<"0">>),
              None, <<StepA, StepB>>)
PathB == Path(Str(<<"3", "7", "2", "5">>), Str(<<"1", "5", "0", "0">>), None, None,
              Str(<<"1">>), <<>>)
\* a duration that int() rejects
PathBad == Path(Str(<<"1", ".", "5">>), Str(<<"1">>), None, None, None, <<>>)

PlanA == Plan(Str(<<"6", "0", "0">>), Str(<<"2">>), Str(<<"8", "0">>),
              <<Segment(Missing, Missing, Walking(Str(<<"8", "0">>))),
                Segment(Bus(<<Busline(<<"L", "1", "(", "a", ")">>, None, Stop(Str(<<"t">>)), Str(<<"4">>))>>),
                        Missing, Walking(Str(<<"3", "0">>))),
                Segment(Missing, Missing, Walking(Str(<<"5", "0">>)))>>)
PlanB == Plan(Str(<<"9", "0", "0">>), Str(<<"3">>), Str(<<"0">>),
              <<Segment(Bus(<<>>), Railway(Str(<<"G", "7">>), Stop(Str(<<"u">>)), Stop(Str(<<"w">>))),
                        Missing)>>)

PlanC == Plan(Str(<<"3", "7", "2", "5">>), None, None, <<>>)
\* a duration that int() rejects
PlanBad == Plan(Str(<<"x">>), None, None, <<>>)

ErrMsg == Str(<<"E", "R", "R">>)

RouteResponses ==
    ExcResponses
    \cup {Http(500, NotJson),
          Http(500, RouteBody(Ko0, InfoErr, PyInt(1), ErrMsg, Missing, Missing)),
          Http(500, RouteBody(Ok1, InfoOK, PyInt(0), InfoOK,
                              Route(<<PathA>>, <<PlanA>>), Data(<<PathA>>))),
          Http(200, NotJson),
          Http(200, JsonArray),
          Http(200, RouteBody(Ko0, InfoErr, PyInt(1), ErrMsg, Missing, Missing)),
          Http(200, RouteBody(Ok1, InfoOK, PyInt(1), ErrMsg,
                              Route(<<PathA, PathB>>, <<PlanA, PlanB>>), Missing)),
          Http(200, RouteBody(Ko0, InfoErr, PyInt(0), InfoOK, Missing, Data(<<PathB, PathA>>))),
          Http(200, RouteBody(Ok1, InfoOK, PyInt(0), InfoOK,
                              Route(<<PathA, PathB>>, <<PlanA, PlanB, PlanB, PlanB>>),
                              Data(<<PathA, PathB>>))),
          Http(200, RouteBody(Ok1, InfoOK, PyInt(0), InfoOK,
                              Route(<<>>, <<>>), Data(<<>>))),
          Http(200, RouteBody(Ok1, InfoOK, PyInt(0), InfoOK,
                              Route(<<>>, <<PlanB, PlanA, PlanC, PlanBad, PlanA>>), Missing)),
          Http(200, RouteBody(Ok1, InfoOK, PyInt(0), InfoOK,
                              Route(<<>>, <<PlanA, PlanBad>>), Missing)),
          Http(200, RouteBody(Ok1, InfoOK, None, None, Missing, Missing)),
          Http(200, RouteBody(Ok1, InfoOK, PyInt(0), InfoOK,
                              Route(<<PathBad>>, <<>>), Data(<<PathBad>>)))}

\* dict.get(key, {}).get(inner, []) for "route"/"data"
PathsOf(container) == IF container.kind = "object" THEN container.f.paths ELSE <<>>
TransitsOf(container) == IF container.kind = "object" THEN container.f.transits ELSE <<>>

\* line 285: "Request Error: {str(e)}"
RequestErrorText(e) == Text(<<Lit("Request Error: "), FmtExc(e)>>)
\* lines 260, 269, 275: "API cuo wu: {...}"
ApiErrorText(msg) == Text(<<Lit("API error: "), Fmt(msg)>>)

\* line 256: "[lu jing gui hua]\n qi dian: {ori_name}\n zhong dian: {des_name}\n"
RouteHeader(ori_name, des_name) ==
    <<Lit("[route plan]\norigin: "), Fmt(ori_name), Lit("\ndestination: "),
      Fmt(des_name), Lit("\n")>>

Narrated(header, n) ==
    IF n.ok THEN Text(header \o n.val) ELSE RequestErrorText(n.exc)

\* lines 252-285, from the arrival of the route response
RouteResultMutV3Envelope(resp, mode, ori_name, des_name) ==
    LET cfg == mode_config[mode]
        raw == resp.body
        header == RouteHeader(ori_name, des_name)
    IN IF resp.kind = "exc" THEN RequestErrorText(resp.exc)
       ELSE IF raw.json = "invalid" THEN RequestErrorText("JSONDecodeError")
       ELSE IF raw.json = "array" THEN RequestErrorText("AttributeError")
       ELSE IF cfg.ver = "v4"
       THEN IF raw.status # Ok1 THEN ApiErrorText(raw.info)
            ELSE IF PathsOf(raw.data) # <<>>
                 THEN Narrated(header, _format_nav_text(mode, PathsOf(raw.data)[1]))
                 \* "wei zhao dao qi xing lu xian"
                 ELSE Text(header \o <<Lit("no bicycling route found")>>)
       ELSE IF mode = "transit"
       THEN IF raw.status # Ok1 THEN ApiErrorText(raw.info)
            ELSE Narrated(header, _format_transit_text(TransitsOf(raw.route)))
       ELSE IF raw.status # Ok1 THEN ApiErrorText(raw.info)
            ELSE IF PathsOf(raw.route) # <<>>
                 THEN Narrated(header, _format_nav_text(mode, PathsOf(raw.route)[1]))
                 \* f"wei zhao dao {mode} lu xian"
                 ELSE Text(header \o <<Lit("no "), [fstr |-> mode], Lit(" route found")>>)

RouteResultMutLastPath(resp, mode, ori_name, des_name) ==
    LET cfg == mode_config[mode]
        raw == resp.body
        header == RouteHeader(ori_name, des_name)
    IN IF resp.kind = "exc" THEN RequestErrorText(resp.exc)
       ELSE IF raw.json = "invalid" THEN RequestErrorText("JSONDecodeError")
       ELSE IF raw.json = "array" THEN RequestErrorText("AttributeError")
       ELSE IF cfg.ver = "v4"
       THEN IF raw.errcode # PyInt(0) THEN ApiErrorText(raw.errmsg)
            ELSE IF PathsOf(raw.data) # <<>>
                 THEN Narrated(header, _format_nav_text(mode, PathsOf(raw.data)[Len(PathsOf(raw.data))]))
                 \* "wei zhao dao qi xing lu xian"
                 ELSE Text(header \o <<Lit("no bicycling route found")>>)
       ELSE IF mode = "transit"
       THEN IF raw.status # Ok1 THEN ApiErrorText(raw.info)
            ELSE Narrated(header, _format_transit_text(TransitsOf(raw.route)))
       ELSE IF raw.status # Ok1 THEN ApiErrorText(raw.info)
            ELSE IF PathsOf(raw.route) # <<>>
                 THEN Narrated(header, _format_nav_text(mode, PathsOf(raw.route)[Len(PathsOf(raw.route))]))
                 \* f"wei zhao dao {mode} lu xian"
                 ELSE Text(header \o <<Lit("no "), [fstr |-> mode], Lit(" route found")>>)

RouteResult(resp, mode, ori_name, des_name) ==
    LET cfg == mode_config[mode]
        raw == resp.body
        header == RouteHeader(ori_name, des_name)
    IN IF resp.kind = "exc" THEN RequestErrorText(resp.exc)
       ELSE IF raw.json = "invalid" THEN RequestErrorText("JSONDecodeError")
       ELSE IF raw.json = "array" THEN RequestErrorText("AttributeError")
       ELSE IF cfg.ver = "v4"
       THEN IF raw.errcode # PyInt(0) THEN ApiErrorText(raw.errmsg)
            ELSE IF PathsOf(raw.data) # <<>>
                 THEN Narrated(header, _format_nav_text(mode, PathsOf(raw.data)[1]))
                 \* "wei zhao dao qi xing lu xian"
                 ELSE Text(header \o <<Lit("no bicycling route found")>>)
       ELSE IF mode = "transit"
       THEN IF raw.status # Ok1 THEN ApiErrorText(raw.info)
            ELSE Narrated(header, _format_transit_text(TransitsOf(raw.route)))
       ELSE IF raw.status # Ok1 THEN ApiErrorText(raw.info)
            ELSE IF PathsOf(raw.route) # <<>>
                 THEN Narrated(header, _format_nav_text(mode, PathsOf(raw.route)[1]))
                 \* f"wei zhao dao {mode} lu xian"
                 ELSE Text(header \o <<Lit("no "), [fstr |-> mode], Lit(" route found")>>)

RouteResponse ==
    /\ pc = "await_route"
    /\ UNCHANGED <<AMAP_API_KEY, call, KEY_POOL, CURRENT_KEY_INDEX, web, fmt>>
    /\ \E resp \in RouteResponses :
        /\ last' = [req |-> TheRequest, resp |-> resp]
        /\ Become(Finish(Recv(Cur, TheRequest, FALSE),
                         RouteResult(resp, locals.mode, locals.ori[3], locals.des[3])))

----------------------------------------------------------------------------
(* poi_search (amap.py:287-427) *)

PoiSearchArgs ==
    [op : {"poi_search"},
     keywords : {Str(<<>>), Str(<<"k", "w">>)},
     city : Cities,
     center : {Str(<<>>), Str(<<"1", ",", "2">>)},
     radius : {3000, 500},
     polygon : {Str(<<>>), Str(<<"1", ",", "2", "|", "3", ",", "4", "|", "5", ",", "6">>)},
     poi_id : {Str(<<>>), Str(<<"B", "0">>)},
     limit : {10, 2}]

SearchTimeout == 10

\* lines 317-369: the request to send, or the text to return at once
\* "(x) cuo wu: duo bian xing sou suo xu yao keywords." and so on
SearchPlanMutPolygonOverId(a) ==
    LET base == [key |-> AMAP_API_KEY, output |-> "json", extensions |-> "all"]
    IN IF Truthy(a.poi_id) /\ ~Truthy(a.polygon)
       THEN [send |-> TRUE, path |-> "/place/detail",
             params |-> [key |-> AMAP_API_KEY, output |-> "json", extensions |-> "all",
                         id |-> a.poi_id],
             \* f"ID cha xun ({poi_id})"
             search_mode |-> <<Lit("ID lookup("), Fmt(a.poi_id), Lit(")")>>]
       ELSE IF Truthy(a.polygon)
       THEN IF ~Truthy(a.keywords)
            THEN [send |-> FALSE,
                  text |-> Text(<<Lit("[X] error: polygon search needs "), Lit("keywords"), Lit(".")>>)]
            ELSE [send |-> TRUE, path |-> "/place/polygon",
                  params |-> [key |-> AMAP_API_KEY, output |-> "json", extensions |-> "all",
                              polygon |-> a.polygon, keywords |-> a.keywords,
                              offset |-> a.limit, page |-> 1],
                  search_mode |-> <<Lit("polygon area search")>>]
       ELSE IF Truthy(a.center)
       THEN IF ~Truthy(a.keywords)
            THEN [send |-> FALSE,
                  text |-> Text(<<Lit("[X] error: around search needs "), Lit("keywords"), Lit(".")>>)]
            ELSE [send |-> TRUE, path |-> "/place/around",
                  params |-> [key |-> AMAP_API_KEY, output |-> "json", extensions |-> "all",
                              location |-> a.center, keywords |-> a.keywords,
                              radius |-> a.radius, sortrule |-> "distance",
                              offset |-> a.limit, page |-> 1],
                  \* f"zhou bian {radius} mi"
                  search_mode |-> <<Lit("around "), FmtInt(a.radius), Lit("m")>>]
       ELSE IF Truthy(a.keywords)
       THEN [send |-> TRUE, path |-> "/place/text",
             params |-> IF Truthy(a.city)
                        THEN [key |-> AMAP_API_KEY, output |-> "json", extensions |-> "all",
                              keywords |-> a.keywords, offset |-> a.limit, page |-> 1,
                              city |-> a.city, citylimit |-> "true"]
                        ELSE [key |-> AMAP_API_KEY, output |-> "json", extensions |-> "all",
                              keywords |-> a.keywords, offset |-> a.limit, page |-> 1],
             \* f"cheng shi ({city or 'quan guo'})"
             search_mode |-> <<Lit("city("),
                               Fmt(IF Truthy(a.city) THEN a.city
                                   ELSE Str(<<"a", "l", "l">>)), Lit(")")>>]
       ELSE [send |-> FALSE,
             text |-> Text(<<Lit("[X] error: give at least one of "),
                             Lit("keywords, center, polygon or poi_id"), Lit(".")>>)]

SearchPlanMutFallThrough(a) ==
    LET base == [key |-> AMAP_API_KEY, output |-> "json", extensions |-> "all"]
    IN IF Truthy(a.poi_id)
       THEN [send |-> TRUE, path |-> "/place/detail",
             params |-> [key |-> AMAP_API_KEY, output |-> "json", extensions |-> "all",
                         id |-> a.poi_id],
             \* f"ID cha xun ({poi_id})"
             search_mode |-> <<Lit("ID lookup("), Fmt(a.poi_id), Lit(")")>>]
       ELSE IF Truthy(a.polygon) /\ Truthy(a.keywords)
       THEN IF ~Truthy(a.keywords)
            THEN [send |-> FALSE,
                  text |-> Text(<<Lit("[X] error: polygon search needs "), Lit("keywords"), Lit(".")>>)]
            ELSE [send |-> TRUE, path |-> "/place/polygon",
                  params |-> [key |-> AMAP_API_KEY, output |-> "json", extensions |-> "all",
                              polygon |-> a.polygon, keywords |-> a.keywords,
                              offset |-> a.limit, page |-> 1],
                  search_mode |-> <<Lit("polygon area search")>>]
       ELSE IF Truthy(a.center)
       THEN IF ~Truthy(a.keywords)
            THEN [send |-> FALSE,
                  text |-> Text(<<Lit("[X] error: around search needs "), Lit("keywords"), Lit(".")>>)]
            ELSE [send |-> TRUE, path |-> "/place/around",
                  params |-> [key |-> AMAP_API_KEY, output |-> "json", extensions |-> "all",
                              location |-> a.center, keywords |-> a.keywords,
                              radius |-> a.radius, sortrule |-> "distance",
                              offset |-> a.limit, page |-> 1],
                  \* f"zhou bian {radius} mi"
                  search_mode |-> <<Lit("around "), FmtInt(a.radius), Lit("m")>>]
       ELSE IF Truthy(a.keywords)
       THEN [send |-> TRUE, path |-> "/place/text",
             params |-> IF Truthy(a.city)
                        THEN [key |-> AMAP_API_KEY, output |-> "json", extensions |-> "all",
                              keywords |-> a.keywords, offset |-> a.limit, page |-> 1,
                              city |-> a.city, citylimit |-> "true"]
                        ELSE [key |-> AMAP_API_KEY, output |-> "json", extensions |-> "all",
                              keywords |-> a.keywords, offset |-> a.limit, page |-> 1],
             \* f"cheng shi ({city or 'quan guo'})"
             search_mode |-> <<Lit("city("),
                               Fmt(IF Truthy(a.city) THEN a.city
                                   ELSE Str(<<"a", "l", "l">>)), Lit(")")>>]
       ELSE [send |-> FALSE,
             text |-> Text(<<Lit("[X] error: give at least one of "),
                             Lit("keywords, center, polygon or poi_id"), Lit(".")>>)]

SearchPlanMutIdWithKeywords(a) ==
    LET base == [key |-> AMAP_API_KEY, output |-> "json", extensions |-> "all"]
    IN IF Truthy(a.poi_id)
       THEN [send |-> TRUE, path |-> "/place/detail",
             params |-> [key |-> AMAP_API_KEY, output |-> "json", extensions |-> "all",
                         id |-> a.poi_id, keywords |-> a.keywords],
             \* f"ID cha xun ({poi_id})"
             search_mode |-> <<Lit("ID lookup("), Fmt(a.poi_id), Lit(")")>>]
       ELSE IF Truthy(a.polygon)
       THEN IF ~Truthy(a.keywords)
            THEN [send |-> FALSE,
                  text |-> Text(<<Lit("[X] error: polygon search needs "), Lit("keywords"), Lit(".")>>)]
            ELSE [send |-> TRUE, path |-> "/place/polygon",
                  params |-> [key |-> AMAP_API_KEY, output |-> "json", extensions |-> "all",
                              polygon |-> a.polygon, keywords |-> a.keywords,
                              offset |-> a.limit, page |-> 1],
                  search_mode |-> <<Lit("polygon area search")>>]
       ELSE IF Truthy(a.center)
       THEN IF ~Truthy(a.keywords)
            THEN [send |-> FALSE,
                  text |-> Text(<<Lit("[X] error: around search needs "), Lit("keywords"), Lit(".")>>)]
            ELSE [send |-> TRUE, path |-> "/place/around",
                  params |-> [key |-> AMAP_API_KEY, output |-> "json", extensions |-> "all",
                              location |-> a.center, keywords |-> a.keywords,
                              radius |-> a.radius, sortrule |-> "distance",
                              offset |-> a.limit, page |-> 1],
                  \* f"zhou bian {radius} mi"
                  search_mode |-> <<Lit("around "), FmtInt(a.radius), Lit("m")>>]
       ELSE IF Truthy(a.keywords)
       THEN [send |-> TRUE, path |-> "/place/text",
             params |-> IF Truthy(a.city)
                        THEN [key |-> AMAP_API_KEY, output |-> "json", extensions |-> "all",
                              keywords |-> a.keywords, offset |-> a.limit, page |-> 1,
                              city |-> a.city, citylimit |-> "true"]
                        ELSE [key |-> AMAP_API_KEY, output |-> "json", extensions |-> "all",
                              keywords |-> a.keywords, offset |-> a.limit, page |-> 1],
             \* f"cheng shi ({city or 'quan guo'})"
             search_mode |-> <<Lit("city("),
                               Fmt(IF Truthy(a.city) THEN a.city
                                   ELSE Str(<<"a", "l", "l">>)), Lit(")")>>]
       ELSE [send |-> FALSE,
             text |-> Text(<<Lit("[X] error: give at least one of "),
                             Lit("keywords, center, polygon or poi_id"), Lit(".")>>)]

SearchPlan(a) ==
    LET base == [key |-> AMAP_API_KEY, output |-> "json", extensions |-> "all"]
    IN IF Truthy(a.poi_id)
       THEN [send |-> TRUE, path |-> "/place/detail",
             params |-> [key |-> AMAP_API_KEY, output |-> "json", extensions |-> "all",
                         id |-> a.poi_id],
             \* f"ID cha xun ({poi_id})"
             search_mode |-> <<Lit("ID lookup("), Fmt(a.poi_id), Lit(")")>>]
       ELSE IF Truthy(a.polygon)
       THEN IF ~Truthy(a.keywords)
            THEN [send |-> FALSE,
                  text |-> Text(<<Lit("[X] error: polygon search needs "), Lit("keywords"), Lit(".")>>)]
            ELSE [send |-> TRUE, path |-> "/place/polygon",
                  params |-> [key |-> AMAP_API_KEY, output |-> "json", extensions |-> "all",
                              polygon |-> a.polygon, keywords |-> a.keywords,
                              offset |-> a.limit, page |-> 1],
                  search_mode |-> <<Lit("polygon area search")>>]
       ELSE IF Truthy(a.center)
       THEN IF ~Truthy(a.keywords)
            THEN [send |-> FALSE,
                  text |-> Text(<<Lit("[X] error: around search needs "), Lit("keywords"), Lit(".")>>)]
            ELSE [send |-> TRUE, path |-> "/place/around",
                  params |-> [key |-> AMAP_API_KEY, output |-> "json", extensions |-> "all",
                              location |-> a.center, keywords |-> a.keywords,
                              radius |-> a.radius, sortrule |-> "distance",
                              offset |-> a.limit, page |-> 1],
                  \* f"zhou bian {radius} mi"
                  search_mode |-> <<Lit("around "), FmtInt(a.radius), Lit("m")>>]
       ELSE IF Truthy(a.keywords)
       THEN [send |-> TRUE, path |-> "/place/text",
             params |-> IF Truthy(a.city)
                        THEN [key |-> AMAP_API_KEY, output |-> "json", extensions |-> "all",
                              keywords |-> a.keywords, offset |-> a.limit, page |-> 1,
                              city |-> a.city, citylimit |-> "true"]
                        ELSE [key |-> AMAP_API_KEY, output |-> "json", extensions |-> "all",
                              keywords |-> a.keywords, offset |-> a.limit, page |-> 1],
             \* f"cheng shi ({city or 'quan guo'})"
             search_mode |-> <<Lit("city("),
                               Fmt(IF Truthy(a.city) THEN a.city
                                   ELSE Str(<<"a", "l", "l">>)), Lit(")")>>]
       ELSE [send |-> FALSE,
             text |-> Text(<<Lit("[X] error: give at least one of "),
                             Lit("keywords, center, polygon or poi_id"), Lit(".")>>)]

SearchRequest(plan) ==
    [host |-> AMAP_API_HOST, path |-> plan.path, params |-> plan.params, side |-> "-",
     timeout |-> SearchTimeout]

Call_poi_search ==
    /\ pc = "idle"
    /\ \E args \in PoiSearchArgs :
        /\ call' = args
        /\ Become(IF ~Truthy(AMAP_API_KEY) THEN Finish(Cur, PoiNoKeyText)
                  ELSE LET plan == SearchPlan(args)
                       IN IF ~plan.send THEN Finish(Cur, plan.text)
                          ELSE Send([Cur EXCEPT !.locals = [op |-> "poi_search",
                                                            search_mode |-> plan.search_mode]],
                                    "await_search", SearchRequest(plan)))
    /\ UNCHANGED <<AMAP_API_KEY, last, KEY_POOL, CURRENT_KEY_INDEX, web, fmt>>

\* one POI of a search response
Poi(name, address, distance, type, tel, id, biz_ext) ==
    [obj |-> TRUE, name |-> name, address |-> address, distance |-> distance,
     type |-> type, tel |-> tel, id |-> id, biz_ext |-> biz_ext]
Biz(rating, cost) == Obj([rating |-> rating, cost |-> cost])

PoiA == Poi(Str(<<"A">>), Str(<<"d">>), Str(<<"8", "5", "0">>), Str(<<"f", ";", "g">>),
            Str(<<"5">>), Str(<<"B", "1">>), Biz(Str(<<"4", ".", "5">>), Str(<<"3", "0">>)))
PoiB == Poi(None, EmptyList, EmptyList, None, EmptyList, None, Biz(EmptyList, EmptyList))
PoiC == Poi(Str(<<"C">>), None, Str(<<"1", "5", "0", "0">>), Str(<<>>), None,
            Str(<<"B", "3">>), Missing)
\* a distance float() rejects, and a type that has no split
PoiBadDist == Poi(Str(<<"D">>), None, Str(<<"f", "a", "r">>), None, None, None, Missing)
PoiBadType == Poi(Str(<<"E">>), None, None, EmptyList, None, None, Missing)

SearchResponses ==
    ExcResponses
    \cup {Http(500, NotJson),
          Http(500, V3List(Ok1, InfoOK, List(<<PoiA>>))),
          Http(404, V3List(Ko0, InfoErr, Missing)),
          Http(200, NotJson),
          Http(200, JsonArray),
          Http(200, V3List(Ko0, InfoErr, List(<<PoiA>>))),
          Http(200, V3List(None, None, Missing)),
          Http(200, V3List(Ok1, InfoOK, Missing)),
          Http(200, V3List(Ok1, InfoOK, List(<<>>))),
          Http(200, V3List(Ok1, InfoOK, List(<<PoiA>>))),
          Http(200, V3List(Ok1, InfoOK, List(<<PoiC, PoiA, PoiB>>))),
          Http(200, V3List(Ok1, InfoOK, List(<<NonObject>>))),
          Http(200, V3List(Ok1, InfoOK, List(<<PoiA, PoiBadDist>>))),
          Http(200, V3List(Ok1, InfoOK, List(<<PoiBadType>>)))}

\* s.split(';')[0]
BeforeSemicolon(s) ==
    LET ps == {i \in 1..Len(s) : s[i] = ";"}
    IN IF ps = {} THEN s
       ELSE SubSeq(s, 1, (CHOOSE i \in ps : \A j \in ps : i <= j) - 1)

\* lines 400-401, the distance rendered inline, on the value of float(distance)
PoiMeters(f) ==
    IF ~f.ok THEN f
    ELSE IF f.val.num < 1000 * Pow10(f.val.scale)
    THEN Good(<<FmtInt(IF f.val.num >= 0 THEN f.val.num \div Pow10(f.val.scale)
                       ELSE -((-f.val.num) \div Pow10(f.val.scale))),
                Lit("m")>>)
    ELSE Good(<<[tenths |-> Tenths(f.val.num, 1000 * Pow10(f.val.scale))], Lit("km")>>)

PoiDistStr(distance) == PoiMeters(tofloat(distance))

\* rating.replace('.','').isdigit()
IsRating(r) ==
    /\ r.t = "str"
    /\ \A i \in 1..Len(r.v) : IsDigit(r.v[i]) \/ r.v[i] = "."
    /\ \E i \in 1..Len(r.v) : IsDigit(r.v[i])

\* lines 392-422: the entry of the POI at position idx (from 1)
PoiEntry(idx, poi) ==
    IF ~poi.obj THEN Bad("AttributeError")
    ELSE
    LET name == Get(poi.name, Str(<<"u", "n", "k", "n", "o", "w", "n">>))
        addr0 == Get(poi.address, Str(<<"n", "o", " ", "a", "d", "d", "r">>))
        addr == IF addr0.t = "list" THEN Str(<<>>) ELSE addr0
        dist == IF Truthy(poi.distance) THEN PoiDistStr(poi.distance) ELSE Good(<<>>)
        type == Get(poi.type, Str(<<>>))
        tel0 == Get(poi.tel, Str(<<>>))
        tel == IF tel0.t = "list" THEN Str(<<>>) ELSE tel0
        p_id == Get(poi.id, Str(<<>>))
        biz == IF poi.biz_ext.kind = "object"
               THEN (IF Truthy(poi.biz_ext.f.rating) /\ IsRating(poi.biz_ext.f.rating)
                     THEN <<Lit("\n   rating: "), Fmt(poi.biz_ext.f.rating)>> ELSE <<>>)
                    \o (IF Truthy(poi.biz_ext.f.cost)
                        THEN <<Lit(" | per person: "), Fmt(poi.biz_ext.f.cost)>> ELSE <<>>)
               ELSE <<>>
    IN IF ~dist.ok THEN dist
       ELSE IF type.t # "str" THEN Bad("AttributeError")
       ELSE Good(<<FmtInt(idx), Lit(". **"), Fmt(name), Lit("**")>>
                 \o (IF dist.val # <<>>
                     THEN <<Lit(" (from centre ")>> \o dist.val \o <<Lit(")")>> ELSE <<>>)
                 \o <<Lit("\n   at "), Fmt(addr), Lit("\n   type "),
                      Fmt(Str(BeforeSemicolon(type.v))), Lit(" | id "), Fmt(p_id)>>
                 \o (IF Truthy(tel) THEN <<Lit(" | tel "), Fmt(tel)>> ELSE <<>>)
                 \o biz)

\* line 427: "(x) yun xing yi chang: {str(e)}"
SearchErrorText(e) == Text(<<Lit("[X] runtime exception: "), FmtExc(e)>>)

\* the response with its body read before its status code
SearchResultMutBodyFirst(resp, search_mode) ==
    IF resp.kind = "exc" THEN SearchErrorText(resp.exc)
    ELSE IF resp.body.json = "invalid" THEN SearchErrorText("JSONDecodeError")
    ELSE IF resp.body.json = "array" THEN SearchErrorText("AttributeError")
    \* "(x) HTTP qing qiu shi bai: {status_code}"
    ELSE IF resp.code # 200 THEN Text(<<Lit("[X] HTTP request failed: "), FmtInt(resp.code)>>)
    \* "(x) gao de API cuo wu: {info}"
    ELSE IF resp.body.status # Ok1 THEN Text(<<Lit("[X] Amap API error: "), Fmt(resp.body.info)>>)
    ELSE LET pois == IF resp.body.items.kind = "list" THEN resp.body.items.list ELSE <<>>
         IN IF pois = <<>>
            \* "(!) zai [{search_mode}] wei zhao dao xiang guan jie guo."
            THEN Text(<<Lit("(!) in [")>> \o search_mode \o <<Lit("] nothing found.")>>)
            ELSE LET entries == Concat([i \in 1..Len(pois) |->
                                    LET e == PoiEntry(i, pois[i])
                                    IN IF e.ok THEN Good(<<Lit("\n\n")>> \o e.val) ELSE e])
                 IN IF ~entries.ok THEN SearchErrorText(entries.exc)
                    \* "[{search_mode}] zhao dao {len(pois)} ge jie guo:"
                    ELSE Text(<<Lit("(?) [")>> \o search_mode
                              \o <<Lit("] found "), FmtInt(Len(pois)), Lit(" results:")>>
                              \o entries.val)

\* lines 373-427, from the arrival of the response
SearchResult(resp, search_mode) ==
    IF resp.kind = "exc" THEN SearchErrorText(resp.exc)
    \* "(x) HTTP qing qiu shi bai: {status_code}"
    ELSE IF resp.code # 200 THEN Text(<<Lit("[X] HTTP request failed: "), FmtInt(resp.code)>>)
    ELSE IF resp.body.json = "invalid" THEN SearchErrorText("JSONDecodeError")
    ELSE IF resp.body.json = "array" THEN SearchErrorText("AttributeError")
    \* "(x) gao de API cuo wu: {info}"
    ELSE IF resp.body.status # Ok1 THEN Text(<<Lit("[X] Amap API error: "), Fmt(resp.body.info)>>)
    ELSE LET pois == IF resp.body.items.kind = "list" THEN resp.body.items.list ELSE <<>>
         IN IF pois = <<>>
            \* "(!) zai [{search_mode}] wei zhao dao xiang guan jie guo."
            THEN Text(<<Lit("(!) in [")>> \o search_mode \o <<Lit("] nothing found.")>>)
            ELSE LET entries == Concat([i \in 1..Len(pois) |->
                                    LET e == PoiEntry(i, pois[i])
                                    IN IF e.ok THEN Good(<<Lit("\n\n")>> \o e.val) ELSE e])
                 IN IF ~entries.ok THEN SearchErrorText(entries.exc)
                    \* "[{search_mode}] zhao dao {len(pois)} ge jie guo:"
                    ELSE Text(<<Lit("(?) [")>> \o search_mode
                              \o <<Lit("] found "), FmtInt(Len(pois)), Lit(" results:")>>
                              \o entries.val)

SearchResponse ==
    /\ pc = "await_search"
    /\ UNCHANGED <<AMAP_API_KEY, call, KEY_POOL, CURRENT_KEY_INDEX, web, fmt>>
    /\ \E resp \in SearchResponses :
        /\ last' = [req |-> TheRequest, resp |-> resp]
        /\ Become(Finish(Recv(Cur, TheRequest, FALSE),
                         SearchResult(resp, locals.search_mode)))

----------------------------------------------------------------------------
(* web_search (tavily.py:15-64) *)

WebArgs ==
    [op : {"web_search"}, query : {Str(<<>>), Str(<<"q">>)},
     search_depth : {"basic"}, include_answer : {TRUE}]

MaxResults == 5
PostTimeout == 30
ContentCut == 200

\* lines 24-38: the request made with the key at position idx (from 0)
WebRequest(a, idx) ==
    [url |-> "https://api.tavily.com/search",
     json |-> [query |-> a.query, search_depth |-> a.search_depth,
               include_answer |-> a.include_answer, max_results |-> MaxResults,
               api_key |-> KEY_POOL[idx + 1]],
     timeout |-> PostTimeout,
     key_index |-> idx]

\* line 22: "(x) wei pei zhi TAVILY_API_KEYS"
NoKeysText == Text(<<Lit("[X] TAVILY_API_KEYS not configured")>>)
\* line 54: "(x) suo you Key e du jun yi hao jin."
ExhaustedText == Text(<<Lit("[X] all keys exhausted.")>>)

\* the loop starting over at the first key once the pool is used up
WebLoopMutWrapAround(w, idx) ==
    [w EXCEPT !.pc = "await_post",
              !.sent = Append(@, WebRequest(w.args, idx % Len(KEY_POOL)))]

\* lines 32-38 and 54: the loop test on the global as it is now, then the
\* request with the current key, or the return after the loop
WebLoop(w, idx) ==
    IF idx < Len(KEY_POOL)
    THEN [w EXCEPT !.pc = "await_post", !.sent = Append(@, WebRequest(w.args, idx))]
    ELSE [w EXCEPT !.pc = "done", !.result = ExhaustedText]

Call_web_search(i) ==
    /\ web[i].pc = "idle"
    /\ \E a \in WebArgs :
        web' = [web EXCEPT ![i] =
                    IF KEY_POOL = <<>>
                    THEN [@ EXCEPT !.pc = "done", !.args = a, !.result = NoKeysText]
                    ELSE WebLoop([@ EXCEPT !.args = a], CURRENT_KEY_INDEX)]
    /\ UNCHANGED <<KEY_POOL, CURRENT_KEY_INDEX, fmt>>
    /\ UNCHANGED <<AMAP_API_KEY, call, pc, side, inflight, log, last, locals, result>>

\* a search result, and the body of a search response
WebItem(title, url, content) ==
    [obj |-> TRUE, title |-> title, url |-> url, content |-> content]
WebBody(answer, results) == [json |-> "object", answer |-> answer, results |-> results]

WebResponses ==
    ExcResponses
    \cup {Http(200, WebBody(Str(<<"A">>), List(<<WebItem(Str(<<"t">>), Str(<<"u">>), Str(<<"c">>)),
                                                 WebItem(None, None, Missing)>>))),
          Http(200, WebBody(None, Missing)),
          Http(200, WebBody(None, List(<<WebItem(Str(<<"t">>), None, None)>>))),
          Http(200, NotJson),
          Http(200, JsonArray),
          Http(401, NotJson),
          Http(403, NotJson),
          Http(429, NotJson),
          Http(500, NotJson)}

\* s[:n]
Take(s, n) == SubSeq(s, 1, IF Len(s) < n THEN Len(s) ELSE n)

\* line 62, one result; item.get('content', '')[:200]
WebLine(idx, item) ==
    IF ~item.obj THEN Bad("AttributeError")
    ELSE IF item.content = None THEN Bad("TypeError")
    ELSE Good(<<Lit("\n"), FmtInt(idx), Lit(". **["), Fmt(item.title), Lit("]("),
                Fmt(item.url), Lit(")**\n   > "),
                Fmt(Str(Take(IF item.content = Missing THEN <<>> ELSE item.content.v,
                             ContentCut))),
                Lit("...")>>)

\* _format_result (tavily.py:56-64); "(!) wu jie guo" when no line
_format_result(data) ==
    IF data.json = "array" THEN Bad("AttributeError")
    ELSE LET head == IF Truthy(data.answer)
                     THEN <<Lit("\n"), Lit("(bot) **summary**:\n"), Fmt(data.answer),
                            Lit("\n"), Lit("--------------------")>>
                     ELSE <<>>
             items == IF data.results.kind = "list" THEN data.results.list ELSE <<>>
             lines == Concat(<<Good(head)>>
                             \o [i \in 1..Len(items) |-> WebLine(i, items[i])])
         IN IF ~lines.ok THEN lines
            ELSE IF lines.val = <<>> THEN Good(<<Lit("(!) no result")>>)
            \* "\n".join: no separator before the first line
            ELSE Good(Tail(lines.val))

\* line 52: "(x) yun xing cuo wu: {str(e)}"
WebErrorText(e) == Text(<<Lit("[X] runtime error: "), FmtExc(e)>>)

\* lines 45: the answers that make web_search give the key up
Rejects(resp) == resp.kind = "http" /\ resp.code \in {401, 403, 429}

WebFormatted(f) == IF f.ok THEN Text(f.val) ELSE WebErrorText(f.exc)

\* lines 41-52 for an answer that ends the invocation
WebResult(resp) ==
    IF resp.kind = "exc" THEN WebErrorText(resp.exc)
    ELSE IF resp.code = 200
    THEN IF resp.body.json = "invalid" THEN WebErrorText("JSONDecodeError")
         ELSE WebFormatted(_format_result(resp.body))
    \* "(x) sou suo shi bai: {status_code}"
    ELSE Text(<<Lit("[X] search failed: "), FmtInt(resp.code)>>)

\* lines 38-54, from the arrival of the response to the next request or
\* the return; line 47 advances the global, and the loop test reads it again
WebResponse(i) ==
    /\ web[i].pc = "await_post"
    /\ \E resp \in WebResponses :
        LET w == [web[i] EXCEPT !.recvd = Append(@, resp)]
            idx == IF Rejects(resp) THEN CURRENT_KEY_INDEX + 1 ELSE CURRENT_KEY_INDEX
        IN /\ CURRENT_KEY_INDEX' = idx
           /\ web' = [web EXCEPT ![i] =
                        IF Rejects(resp) THEN WebLoop(w, idx)
                        ELSE [w EXCEPT !.pc = "done", !.result = WebResult(resp)]]
    /\ UNCHANGED <<KEY_POOL, fmt>>
    /\ UNCHANGED <<AMAP_API_KEY, call, pc, side, inflight, log, last, locals, result>>

----------------------------------------------------------------------------
(* The formatters applied on their own *)

\* durations in seconds: around the minute, around the hour, around two
\* hours and a day, negative; as numbers, and some as strings
SecondsValues ==
    (-61..130) \cup (3530..3730) \cup {7199, 7200, 7260, 86399, 86400, 90061, -3601}
SecondsInputs ==
    {PyInt(n) : n \in SecondsValues}
    \cup {Str(DigitsOf(n)) : n \in {0, 59, 60, 125, 3599, 3600, 3725}}
    \cup {Str(<<" ", "6", "0", " ">>), Str(<<"1", ".", "5">>), Str(<<>>), None, EmptyList}

Apply_fmt_time ==
    /\ fmt.fn = "-"
    /\ \E seconds \in SecondsInputs :
        fmt' = [fn |-> "_fmt_time", arg |-> seconds, out |-> _fmt_time(seconds)]
    /\ UNCHANGED <<AMAP_API_KEY, call, pc, side, inflight, log, last, locals, result>>
    /\ UNCHANGED <<KEY_POOL, CURRENT_KEY_INDEX, web>>

\* distances in metres: around 1000, the halves of a tenth of a kilometre,
\* small and negative; as numbers and as strings, some with decimals
DistanceValues ==
    (0..3) \cup (940..1060)
    \cup {-5, 849, 850, 1149, 1150, 1151, 1250, 1350, 1450, 1500, 1549, 1550,
          9949, 9950, 12345, 99950}
DistanceInputs ==
    {PyInt(n) : n \in DistanceValues}
    \cup {Str(DigitsOf(n)) : n \in DistanceValues}
    \cup {Str(<<"9", "9", "9", ".", "9">>), Str(<<"9", "9", "9", ".", "9", "9">>),
          Str(<<"1", "0", "0", "0", ".", "0">>), Str(<<"1", "0", "4", "9", ".", "9">>),
          Str(<<"1", "0", "5", "0", ".", "0">>), Str(<<"1", ".">>), Str(<<".", "5">>),
          Str(<<" ", "8", "5", "0", " ">>), Str(<<"a">>), Str(<<>>), None, EmptyList}

\* _fmt_dist, and what poi_search renders inline for the same distance
\* (amap.py:398-402; nothing when the distance is falsy)
Apply_distance ==
    /\ fmt.fn = "-"
    /\ \E meters \in DistanceInputs :
        fmt' = [fn |-> "distance", arg |-> meters, out |-> _fmt_dist(meters),
                inline |-> IF Truthy(meters) THEN PoiDistStr(meters) ELSE Good(<<>>)]
    /\ UNCHANGED <<AMAP_API_KEY, call, pc, side, inflight, log, last, locals, result>>
    /\ UNCHANGED <<KEY_POOL, CURRENT_KEY_INDEX, web>>

\* steps of a path: instructions with and without the directional cue and
\* the distance tokens, roads that are inside the instruction or not and
\* that carry a distance token themselves, distances of every sign and
\* shape, assistant actions present and absent
Instructions ==
    {<<>>, <<"a">>, <<"X">>, <<"M">>, <<"a", "b">>, <<"X", "a">>, <<"a", "X">>,
     <<"a", "M">>, <<"G", "L">>, <<"G", "a">>, <<"L", "G">>, <<"X", "G", "L">>,
     <<"a", "r", "b">>, <<"9", "M">>}
Roads ==
    {None, EmptyList, Str(<<>>), Str(<<"a">>), Str(<<"r">>), Str(<<"X">>), Str(<<"M">>),
     Str(<<"G", "L">>), Str(<<"G">>), Str(<<"r", "M">>)}
StepDistances ==
    {None, Str(<<"0">>), Str(<<"9">>), Str(<<"1", "2", "0">>), Str(<<"-", "3">>),
     PyInt(0), PyInt(7), PyInt(-2), Str(<<"x">>), Str(<<"1", ".", "5">>), Str(<<>>)}
Assistants == {None, EmptyList, Str(<<>>), Str(<<"z">>), Str(<<"M">>)}

NavSteps ==
    {Step(i, r, d, a) : i \in Instructions, r \in Roads, d \in StepDistances, a \in Assistants}

\* paths of one step, of every step; and paths of none, two and three steps
NavPaths ==
    {Path(Str(<<"1", "2", "5">>), Str(<<"8", "5", "0">>), None, None, None, <<st>>) :
        st \in NavSteps}
    \cup {Path(Str(<<"6", "0">>), PyInt(1500), Str(<<"2">>), Str(<<"5">>), Str(<<"1">>), sts) :
            sts \in {<<>>,
                     <<Step(<<"a">>, Str(<<"r">>), Str(<<"9">>), None),
                       Step(<<"X">>, Str(<<"r">>), Str(<<"0">>), Str(<<"z">>))>>,
                     <<Step(<<"a">>, None, None, None),
                       Step(<<"a">>, None, None, None),
                       Step(<<"X", "a">>, Str(<<"a">>), PyInt(7), EmptyList)>>,
                     <<Step(<<"a">>, Str(<<"r">>), Str(<<"9">>), None),
                       Step(<<"a">>, None, Str(<<"x">>), None)>>}}

Apply_format_nav_text ==
    /\ fmt.fn = "-"
    /\ \E mode \in {"driving", "walking", "bicycling"} :
       \E path_data \in NavPaths :
        /\ mode # "walking" => Len(path_data.steps) # 1
        /\ fmt' = [fn |-> "_format_nav_text", mode |-> mode, arg |-> path_data,
                   out |-> _format_nav_text(mode, path_data)]
    /\ UNCHANGED <<AMAP_API_KEY, call, pc, side, inflight, log, last, locals, result>>
    /\ UNCHANGED <<KEY_POOL, CURRENT_KEY_INDEX, web>>

\* segments of a transit plan: bus segments whose first line has a name
\* with and without parentheses and stops given, missing or malformed;
\* railway segments; walks around the 50 metres; segments with several
\* kinds of data, and with none
BusNames ==
    {<<"L", "1", "(", "a", ")">>, <<"(", "x">>, <<"L", "2">>, <<>>,
     <<"L", "(", "1", ")", "(", "2", ")">>}
BusSegments ==
    {Segment(Bus(<<Busline(n, d, Stop(Str(<<"t">>)), Str(<<"4">>))>>), Missing, Missing) :
        n \in BusNames, d \in {None, Stop(Str(<<"s">>)), Stop(None), EmptyList}}
    \cup {Segment(Bus(<<Busline(<<"L", "2">>, None, None, None),
                        Busline(<<"L", "9">>, None, None, None)>>), Missing, Missing),
          Segment(Bus(<<Busline(<<"L", "3", "(", "b">>, Stop(Str(<<"s">>)), Stop(Str(<<"t">>)),
                                PyInt(4))>>),
                  Railway(Str(<<"G", "7">>), None, None), Walking(Str(<<"8", "0">>)))}
RailSegments ==
    {Segment(b, Railway(n, d, Stop(Str(<<"w">>))), w) :
        b \in {Missing, Bus(<<>>)}, n \in {Str(<<"G", "7">>), Str(<<"R", "(", "1", ")">>)},
        d \in {None, Stop(Str(<<"u">>)), EmptyList}, w \in {Missing, Walking(Str(<<"8", "0">>))}}
WalkDistances ==
    {None, Str(<<"0">>), Str(<<"4", "9">>), Str(<<"5", "0">>), Str(<<"5", "1">>),
     Str(<<"8", "0">>), Str(<<"1", "2", "0", "0">>), PyInt(50), PyInt(51), PyInt(-60),
     Str(<<"x">>), Str(<<"5", "0", ".", "5">>)}
WalkSegments ==
    {Segment(Missing, Missing, Walking(d)) : d \in WalkDistances}
    \cup {Segment(Bus(<<>>), Railway(Str(<<>>), None, None), Walking(Str(<<"5", "1">>))),
          Segment(Missing, Missing, Missing)}
TransitSegments == BusSegments \cup RailSegments \cup WalkSegments

TransitPlan(segments) == Plan(Str(<<"6", "0", "0">>), Str(<<"2">>), Str(<<"8", "0">>), segments)

\* answers of one plan of up to two segments; and of two to four plans
TransitInputs ==
    {<<TransitPlan(segs)>> :
        segs \in {<<>>} \cup {<<a>> : a \in TransitSegments}
                 \cup {<<a, b>> : a \in TransitSegments, b \in TransitSegments}}
    \cup {<<p, q>> : p \in {PlanA, PlanB, PlanC}, q \in {PlanA, PlanB, PlanC, PlanBad}}
    \cup {<<PlanB, PlanA, PlanA, PlanBad>>, <<>>}

Apply_format_transit_text ==
    /\ fmt.fn = "-"
    /\ \E transits \in TransitInputs :
        fmt' = [fn |-> "_format_transit_text", arg |-> transits,
                out |-> _format_transit_text(transits)]
    /\ UNCHANGED <<AMAP_API_KEY, call, pc, side, inflight, log, last, locals, result>>
    /\ UNCHANGED <<KEY_POOL, CURRENT_KEY_INDEX, web>>

----------------------------------------------------------------------------

Next ==
    \/ Call_get_location_by_ip
    \/ Call_geocode_address
    \/ Call_regeocode_location
    \/ Call_plan_route
    \/ Call_poi_search
    \/ GeoResponse
    \/ PoiResponse
    \/ RouteResponse
    \/ SearchResponse
    \/ IpResponse
    \/ RegeoResponse

Spec == Init /\ [][Next]_vars

\* web_search, any number of invocations up to NumInvocations, interleaved
\* at their awaits
NextWeb ==
    \/ \E i \in Invocations : Call_web_search(i)
    \/ \E i \in Invocations : WebResponse(i)

SpecWeb == InitWeb /\ [][NextWeb]_vars

\* one formatter applied once to one input
InitFmt ==
    /\ AMAP_API_KEY = None
    /\ MapIdle
    /\ KEY_POOL = KeyPoolOf(<<>>)
    /\ SearchIdle

NextFmt ==
    \/ Apply_fmt_time
    \/ Apply_distance
    \/ Apply_format_nav_text
    \/ Apply_format_transit_text

SpecFmt == InitFmt /\ [][NextFmt]_vars

----------------------------------------------------------------------------
(* Vocabulary of the properties *)

ResolveSides == {"ori", "des", "addr"}
RoutePaths == {mode_config[m].url : m \in SupportedModes}
SearchPaths == {"/place/detail", "/place/polygon", "/place/around", "/place/text"}

\* positions in the log of the requests sent to path for side s, and of the
\* responses received
SendsOf(path, s) ==
    {i \in DOMAIN log : log[i].ev = "send" /\ log[i].req.path = path /\ log[i].req.side = s}
RecvsOf(path, s) ==
    {i \in DOMAIN log : log[i].ev = "recv" /\ log[i].req.path = path /\ log[i].req.side = s}
AllSends == {i \in DOMAIN log : log[i].ev = "send"}

\* the resolutions that have returned so far: the input and the triple
Resolutions ==
    (IF locals.op = "geocode_address"
     THEN {[side |-> "addr", input |-> call.address, t |-> locals.res]} ELSE {})
    \cup (IF locals.op = "plan_route" /\ "ori" \in DOMAIN locals
          THEN {[side |-> "ori", input |-> call.origin, t |-> locals.ori]} ELSE {})
    \cup (IF locals.op = "plan_route" /\ "des" \in DOMAIN locals
          THEN {[side |-> "des", input |-> call.destination, t |-> locals.des]} ELSE {})

\* the text returned contains the token
TextHas(tok) ==
    result.kind = "text" /\ \E i \in DOMAIN result.text : result.text[i] = tok

\* a signed decimal: -?digits(.digits)?
IsSignedDecimal(p) ==
    LET b == IF p # <<>> /\ p[1] = "-" THEN Tail(p) ELSE p
        dots == {i \in 1..Len(b) : b[i] = "."}
    IN /\ b # <<>>
       /\ \A i \in 1..Len(b) : IsDigit(b[i]) \/ b[i] = "."
       /\ Cardinality(dots) <= 1
       /\ 1 \notin dots /\ Len(b) \notin dots

\* the text is "lon,lat", two signed decimals around one comma
IsCoordPair(s) ==
    /\ Len(split_comma(s)) = 2
    /\ IsSignedDecimal(split_comma(s)[1])
    /\ IsSignedDecimal(split_comma(s)[2])

\* a step that faulted: the request raised (connection error, timeout), the
\* status is not 200, the body is not JSON, or it is JSON of the wrong shape
\* (not an object, no result list, a first result that is not an object)
IsFault(resp) ==
    \/ resp.kind = "exc"
    \/ resp.code # 200
    \/ resp.body.json # "object"
    \/ /\ resp.body.status = Ok1
       /\ \/ resp.body.items.kind # "list"
          \/ /\ resp.body.items.list # <<>>
             /\ ~resp.body.items.list[1].obj

IsTimeout(resp) == resp.kind = "exc" /\ resp.exc = "ReadTimeout"
IsNon200(resp) == resp.kind = "http" /\ resp.code # 200

----------------------------------------------------------------------------
(* Properties of _resolve_location *)

\* C1: within one resolution the POI text search is requested only after the
\* geocode response has arrived and given no first result; after a geocode
\* response that gave one, no POI request is sent for that resolution; and at
\* most one request is in flight at any time.
C1_FallbackIsSequential ==
    /\ Cardinality(inflight) <= 1
    /\ \A s \in ResolveSides :
        /\ \A i \in SendsOf("/place/text", s) :
            \E j \in SendsOf("/geocode/geo", s), k \in RecvsOf("/geocode/geo", s) :
                j < k /\ k < i /\ ~log[k].returned
        /\ (\E k \in RecvsOf("/geocode/geo", s) : log[k].returned)
            => SendsOf("/place/text", s) = {}
    /\ pc = "await_poi" =>
        /\ last.req.path = "/geocode/geo"
        /\ last.req.side = side
        /\ ~FirstResult(last.resp).ok
        /\ \A r \in inflight : r.path = "/place/text" /\ r.side = side
    /\ (last.req.side \in ResolveSides /\ last.req.path = "/geocode/geo"
        /\ FirstResult(last.resp).ok) => pc # "await_poi"

\* a route planned with the origin taken from the geocode's first result and
\* the destination from the POI fallback
C1_Witness ==
    /\ pc = "await_route"
    /\ SendsOf("/geocode/geo", "ori") # {} /\ SendsOf("/place/text", "ori") = {}
    /\ SendsOf("/geocode/geo", "des") # {} /\ SendsOf("/place/text", "des") # {}

\* C2: an input that is a signed-decimal pair "lon,lat" is returned as the
\* coordinate, with no administrative code, and no request is sent for it.
C2_LiteralNeedsNoRequest ==
    /\ \A r \in Resolutions :
        IsCoordPair(r.input.v) => r.t[1] = r.input /\ r.t[2] = None
    /\ (call.op = "geocode_address" /\ IsCoordPair(call.address.v)) => log = <<>>
    /\ call.op = "plan_route" =>
        /\ IsCoordPair(call.origin.v) =>
            \A i \in DOMAIN log : log[i].req.side # "ori"
        /\ IsCoordPair(call.destination.v) =>
            \A i \in DOMAIN log : log[i].req.side # "des"

C2_Witness ==
    /\ pc = "done"
    /\ call.op = "geocode_address"
    /\ call.address = Str(<<"-", "1", ".", "5", ",", "2">>)
    /\ locals.op = "geocode_address"
    /\ locals.res[1] = call.address

\* C3: a geocode step that faults raises nothing and is followed by the POI
\* request for the same input; a POI step that faults ends the resolution
\* with a returned value; no exception leaves an operation through the
\* resolver.
C3_FaultsFallThrough ==
    /\ (last.req.side \in ResolveSides /\ last.req.path = "/geocode/geo"
        /\ IsFault(last.resp)) =>
            /\ pc = "await_poi"
            /\ result = NoResult
            /\ \E r \in inflight :
                /\ r.path = "/place/text" /\ r.side = last.req.side
                /\ r.params.keywords = last.req.params.address
    /\ (last.req.side \in ResolveSides /\ last.req.path = "/place/text"
        /\ IsFault(last.resp)) =>
            /\ result.kind # "raise"
            /\ \E r \in Resolutions :
                r.side = last.req.side /\ r.t = <<None, None, r.input>>
    /\ call.op \in {"geocode_address", "plan_route"} => result.kind # "raise"

C3_Witness ==
    /\ pc = "await_poi"
    /\ last.req.path = "/geocode/geo"
    /\ IsTimeout(last.resp)

\* C4: a resolution that returns no coordinate returns no administrative
\* code either, and the original input as the display name.
C4_FailureCarriesInput ==
    \A r \in Resolutions :
        ~Truthy(r.t[1]) => r.t[2] = None /\ r.t[3] = r.input

\* C5: every coordinate a resolution returns is a "lon,lat" pair of numbers.
C5_CoordinateIsNumericPair ==
    \A r \in Resolutions :
        Truthy(r.t[1]) => IsCoordPair(r.t[1].v)

----------------------------------------------------------------------------
(* Properties of the operations *)

MapOperations == {"plan_route", "poi_search", "geocode_address",
                  "regeocode_location", "get_location_by_ip"}

\* C6: every map operation gives back a text; no fault leaves it, whatever
\* the upstream does.
C6_AlwaysText ==
    (pc = "done" /\ call.op \in MapOperations) => result.kind = "text"

\* C7: with no API key every map operation returns its 'no API key' text at
\* once, before any other check, and sends nothing.
C7_NoKeyNoTraffic ==
    (~Truthy(AMAP_API_KEY) /\ pc # "idle") =>
        /\ pc = "done"
        /\ log = <<>>
        /\ inflight = {}
        /\ result = IF call.op = "poi_search" THEN PoiNoKeyText ELSE NoKeyText

\* without a key: an unsupported mode, and a search with no parameter at all
C7_Witness ==
    /\ AMAP_API_KEY = None
    /\ pc = "done"
    /\ call.op = "plan_route"
    /\ call.mode = "fly"
    /\ result = NoKeyText

\* the last request of plan_route or poi_search
IsFinalRequest(req) ==
    \/ call.op = "plan_route" /\ req.side = "-" /\ req.path \in RoutePaths
    \/ call.op = "poi_search" /\ req.path \in SearchPaths

\* C8: when the final request of plan_route or poi_search comes back with a
\* status other than 200 or times out, the text returned carries the status
\* or the timeout, and the request is sent once only.
C8_TransportErrorText ==
    (pc = "done" /\ "path" \in DOMAIN last.req /\ IsFinalRequest(last.req)) =>
        /\ IsNon200(last.resp) => TextHas(FmtInt(last.resp.code))
        /\ IsTimeout(last.resp) => TextHas(FmtExc("ReadTimeout"))
        /\ Cardinality({i \in AllSends : IsFinalRequest(log[i].req)}) = 1

\* C9: when plan_route cannot resolve one of the two places, the text names
\* the side that failed and not the other one.
C9_UnresolvedNamesSide ==
    (pc = "done" /\ locals.op = "plan_route" /\ "des" \in DOMAIN locals) =>
        /\ (~Truthy(locals.ori[1]) /\ Truthy(locals.des[1])) =>
            TextHas(Lit("origin")) /\ ~TextHas(Lit("destination"))
        /\ (Truthy(locals.ori[1]) /\ ~Truthy(locals.des[1])) =>
            TextHas(Lit("destination")) /\ ~TextHas(Lit("origin"))

\* the aliases of section 4.2
AliasTarget(mode) ==
    CASE mode = "car" -> "driving"
      [] mode = "walk" -> "walking"
      [] mode \in {"bike", "ride", "cycling"} -> "bicycling"
      [] mode \in {"bus", "subway"} -> "transit"
      [] OTHER -> mode

IsSupported(mode) == AliasTarget(mode) \in {"driving", "walking", "transit", "bicycling"}

\* C10, as claimed: plan_route sends requests only for a mode that is, after
\* aliasing, one of the four; for any other mode it returns the
\* unsupported-mode text with that mode and sends nothing.
C10_UnsupportedModeText ==
    (call.op = "plan_route" /\ pc # "idle") =>
        /\ log # <<>> => IsSupported(call.mode)
        /\ ~IsSupported(call.mode) =>
            /\ pc = "done" /\ log = <<>>
            /\ result = Text(<<Lit("unsupported mode: "), [fstr |-> call.mode]>>)

\* C10, amended: the same, the text being the unsupported-mode text when an
\* API key is configured and the 'no API key' text when none is.
C10_UnsupportedModeTextWithKey ==
    (call.op = "plan_route" /\ pc # "idle") =>
        /\ log # <<>> => IsSupported(call.mode)
        /\ ~IsSupported(call.mode) =>
            /\ pc = "done" /\ log = <<>> /\ inflight = {}
            /\ result = IF Truthy(AMAP_API_KEY)
                        THEN Text(<<Lit("unsupported mode: "), [fstr |-> call.mode]>>)
                        ELSE NoKeyText

\* a key, an unsupported mode and a place that would need a geocode request
C10_Witness ==
    /\ Truthy(AMAP_API_KEY)
    /\ pc = "done"
    /\ call.op = "plan_route"
    /\ call.mode = "fly"
    /\ call.origin = Str(<<"a">>)
    /\ result = Text(<<Lit("unsupported mode: "), [fstr |-> "fly"]>>)

----------------------------------------------------------------------------
(* Properties of plan_route's dispatch *)

\* C11: the mode plan_route works with is the alias table's image of the
\* mode it was given: car -> driving, walk -> walking, bike/ride/cycling ->
\* bicycling, bus/subway -> transit, every other mode itself; normalizing a
\* normalized mode changes nothing.
C11_AliasNormalization ==
    /\ locals.op = "plan_route" =>
        /\ locals.mode = AliasTarget(call.mode)
        /\ NormalizeMode(locals.mode) = locals.mode
    /\ \A m \in Modes :
        /\ NormalizeMode(m) = AliasTarget(m)
        /\ m \notin Aliases => NormalizeMode(m) = m
        /\ NormalizeMode(NormalizeMode(m)) = NormalizeMode(m)

\* "ride" has become "bicycling" and the origin's geocode request is out
C11_Witness ==
    /\ call.op = "plan_route"
    /\ call.mode = "ride"
    /\ locals.op = "plan_route"
    /\ locals.mode = "bicycling"
    /\ pc = "await_geo"

\* C12: the route request is the dispatch table's row of the normalized
\* mode: driving and walking on the v3 host, bicycling on the v4 host,
\* transit on v3 direction/transit/integrated with city and destination
\* city (the default city when none is given) and the caller's strategy;
\* a driving request carries strategy 10 whatever the caller passed, and no
\* other mode carries a parameter outside its row.
C12_DispatchTable ==
    call.op = "plan_route" =>
        \A i \in AllSends :
            log[i].req.side = "-" =>
                LET r == log[i].req
                    m == AliasTarget(call.mode)
                    P == DOMAIN r.params
                    v3 == {"key", "origin", "destination", "output", "extensions"}
                IN /\ m \in {"driving", "walking", "transit", "bicycling"}
                   /\ m = "driving" =>
                        /\ r.host = AMAP_API_HOST /\ r.path = "/direction/driving"
                        /\ P = v3 \cup {"strategy"}
                        /\ r.params.strategy = 10
                   /\ m = "walking" =>
                        /\ r.host = AMAP_API_HOST /\ r.path = "/direction/walking"
                        /\ P = v3
                   /\ m = "bicycling" =>
                        /\ r.host = AMAP_API_HOST_V4 /\ r.path = "/direction/bicycling"
                        /\ P = {"key", "origin", "destination"}
                   /\ m = "transit" =>
                        /\ r.host = AMAP_API_HOST
                        /\ r.path = "/direction/transit/integrated"
                        /\ P = v3 \cup {"city", "cityd", "strategy"}
                        /\ r.params.city = IF call.city = Str(<<>>) THEN DefaultCity
                                           ELSE call.city
                        /\ r.params.cityd = r.params.city
                        /\ r.params.strategy = call.strategy

\* a driving request, asked for as "car" with strategy 3, is out with 10
C12_Witness ==
    /\ pc = "await_route"
    /\ call.mode = "car"
    /\ call.strategy = 3
    /\ \E r \in inflight : r.path = "/direction/driving" /\ r.params.strategy = 10

\* the route response has been consumed and its body was a JSON object
RouteAnswered ==
    /\ pc = "done"
    /\ locals.op = "plan_route"
    /\ "path" \in DOMAIN last.req
    /\ last.req.side = "-"
    /\ last.resp.kind = "http"
    /\ last.resp.body.json = "object"

\* the envelope of the version the mode is dispatched to says success
EnvelopeOK ==
    IF locals.mode = "bicycling" THEN last.resp.body.errcode = PyInt(0)
    ELSE last.resp.body.status = Str(<<"1">>)

\* C13: a v3 response (driving, walking, transit) whose status is not "1"
\* gives the error text with info, a v4 response (bicycling) whose errcode
\* is not 0 gives the error text with errmsg, and nothing else is in the
\* text; the other version's field decides nothing.
C13_EnvelopeOfTheVersion ==
    RouteAnswered =>
        LET b == last.resp.body
        IN IF locals.mode = "bicycling"
           THEN /\ b.errcode # PyInt(0) =>
                    result = Text(<<Lit("API error: "), Fmt(b.errmsg)>>)
                /\ b.errcode = PyInt(0) => ~TextHas(Lit("API error: "))
           ELSE /\ b.status # Str(<<"1">>) =>
                    result = Text(<<Lit("API error: "), Fmt(b.info)>>)
                /\ b.status = Str(<<"1">>) => ~TextHas(Lit("API error: "))

\* a bicycling response with the v3 status "0" and the v4 errcode 0 is
\* narrated
C13_Witness ==
    /\ RouteAnswered
    /\ locals.mode = "bicycling"
    /\ last.resp.body.status = Str(<<"0">>)
    /\ last.resp.body.errcode = PyInt(0)
    /\ TextHas(Lit("(bike)"))

\* the path list of the response, for the modes that have one
AnsweredPaths ==
    LET c == IF locals.mode = "bicycling" THEN last.resp.body.data
             ELSE last.resp.body.route
    IN IF c.kind = "object" THEN c.f.paths ELSE <<>>

\* C14: driving, walking, bicycling: a successful envelope with no path
\* gives the route header and a 'no route found' line, not an error text;
\* with paths, the text is the narration of the first one and of nothing
\* else.
C14_FirstPathOnly ==
    (RouteAnswered /\ locals.mode # "transit" /\ EnvelopeOK) =>
        LET header == RouteHeader(locals.ori[3], locals.des[3])
        IN /\ AnsweredPaths = <<>> =>
                /\ result.kind = "text"
                /\ Len(result.text) > Len(header)
                /\ SubSeq(result.text, 1, Len(header)) = header
                /\ TextHas(Lit(" route found")) \/ TextHas(Lit("no bicycling route found"))
                /\ ~TextHas(Lit("API error: "))
                /\ ~TextHas(Lit("Request Error: "))
           /\ AnsweredPaths # <<>> =>
                result = Narrated(header, _format_nav_text(locals.mode, AnsweredPaths[1]))

\* two paths came back, of 125 s and of 3725 s: the text has the 2 minutes
\* of the first and not the hour of the second
C14_Witness ==
    /\ RouteAnswered /\ locals.mode = "driving" /\ EnvelopeOK
    /\ Len(AnsweredPaths) = 2
    /\ TextHas(FmtInt(2)) /\ TextHas(Lit("min"))
    /\ ~TextHas(Lit("h"))

\* the narrator can render the path: its duration, its distance and the
\* step distances it reads are numbers
PathNarratable(mode, p) == _format_nav_text(mode, p).ok

DrivingTitle == <<Lit("(car)"), Lit(" ["), [fstr |-> "driving"], Lit(" navigation]")>>

\* C15, as claimed: a driving request answered with success and a path gives
\* a text that begins with the driving title (taken here on the answers
\* whose first path the narrator can render, where it already fails).
C15_BeginsWithModeHeader ==
    (/\ RouteAnswered /\ locals.mode = "driving" /\ EnvelopeOK /\ AnsweredPaths # <<>>
     /\ PathNarratable("driving", AnsweredPaths[1])) =>
        /\ result.kind = "text"
        /\ Len(result.text) >= 4
        /\ SubSeq(result.text, 1, 4) = DrivingTitle

\* C15, amended: the text begins with the route header (origin and
\* destination names) and the driving title follows it at once; when the
\* narrator cannot render the first path, the text is the request-error text.
C15_ModeHeaderAfterRouteHeader ==
    (RouteAnswered /\ locals.mode = "driving" /\ EnvelopeOK /\ AnsweredPaths # <<>>) =>
        /\ result.kind = "text"
        /\ PathNarratable("driving", AnsweredPaths[1]) =>
            /\ Len(result.text) >= 9
            /\ SubSeq(result.text, 1, 5) = RouteHeader(locals.ori[3], locals.des[3])
            /\ SubSeq(result.text, 6, 9) = DrivingTitle
        /\ ~PathNarratable("driving", AnsweredPaths[1]) =>
            /\ Len(result.text) = 2
            /\ result.text[1] = Lit("Request Error: ")

C15_Witness ==
    /\ RouteAnswered /\ EnvelopeOK
    /\ call.mode = "car"
    /\ AnsweredPaths # <<>>
    /\ Len(result.text) >= 9
    /\ SubSeq(result.text, 6, 9) = DrivingTitle

----------------------------------------------------------------------------
(* Properties of poi_search's mode selection *)

Present(v) == v # Str(<<>>)

\* the mode the priority poi_id > polygon > center > keywords gives
PriorityMode(a) ==
    IF Present(a.poi_id) THEN "id"
    ELSE IF Present(a.polygon) THEN "polygon"
    ELSE IF Present(a.center) THEN "around"
    ELSE IF Present(a.keywords) THEN "text"
    ELSE "none"

PathMode(path) ==
    CASE path = "/place/detail" -> "id"
      [] path = "/place/polygon" -> "polygon"
      [] path = "/place/around" -> "around"
      [] path = "/place/text" -> "text"

PolygonNeedsKeywords ==
    Text(<<Lit("[X] error: polygon search needs "), Lit("keywords"), Lit(".")>>)
AroundNeedsKeywords ==
    Text(<<Lit("[X] error: around search needs "), Lit("keywords"), Lit(".")>>)
AtLeastOneParameter ==
    Text(<<Lit("[X] error: give at least one of "),
           Lit("keywords, center, polygon or poi_id"), Lit(".")>>)

\* the modes the invocation has shown so far: by the endpoint of a request
\* it sent, or by the mode its missing-keywords text names
ModesSeen ==
    {PathMode(log[i].req.path) : i \in AllSends}
    \cup (IF result = PolygonNeedsKeywords THEN {"polygon"} ELSE {})
    \cup (IF result = AroundNeedsKeywords THEN {"around"} ELSE {})

SearchStarted == call.op = "poi_search" /\ Truthy(AMAP_API_KEY) /\ pc # "idle"

\* C16: for every combination of poi_id, polygon, center and keywords,
\* poi_search acts in one mode only, the first present in the order poi_id,
\* polygon, center, keywords; it acts in none only when all four are absent.
C16_OneModeByPriority ==
    SearchStarted =>
        /\ ModesSeen = IF PriorityMode(call) = "none" THEN {} ELSE {PriorityMode(call)}
        /\ Cardinality(AllSends) <= 1
        /\ pc = "await_search" =>
            \E r \in inflight : PathMode(r.path) = PriorityMode(call)

\* polygon, center and keywords given, no poi_id: the polygon search answered
C16_Witness ==
    /\ SearchStarted /\ pc = "done"
    /\ Present(call.polygon) /\ Present(call.center) /\ Present(call.keywords)
    /\ ~Present(call.poi_id)
    /\ ModesSeen = {"polygon"}
    /\ Len(log) = 2

\* C17: polygon mode or proximity mode without keywords ends with the text
\* that names keywords, and a call with none of the four parameters with the
\* 'at least one parameter' text; nothing is sent and no lower mode is tried.
C17_MissingParameterTexts ==
    (SearchStarted /\ ~Present(call.keywords) /\ ~Present(call.poi_id)) =>
        /\ pc = "done" /\ log = <<>> /\ inflight = {}
        /\ result = IF Present(call.polygon) THEN PolygonNeedsKeywords
                    ELSE IF Present(call.center) THEN AroundNeedsKeywords
                    ELSE AtLeastOneParameter
        /\ (Present(call.polygon) \/ Present(call.center)) => TextHas(Lit("keywords"))

\* polygon and center without keywords: the polygon text, nothing sent
C17_Witness ==
    /\ SearchStarted
    /\ Present(call.polygon) /\ Present(call.center)
    /\ ~Present(call.keywords) /\ ~Present(call.poi_id)
    /\ result = PolygonNeedsKeywords
    /\ log = <<>>

\* C18: with a poi_id the request is the ID lookup of that id and carries
\* nothing of keywords, city, center, radius, polygon or limit; in every
\* other mode the request carries the caller's limit as page size, and
\* page 1.
C18_IdLookupIgnoresTheRest ==
    SearchStarted =>
        \A i \in AllSends :
            LET r == log[i].req
            IN IF Present(call.poi_id)
               THEN /\ r.host = AMAP_API_HOST
                    /\ r.path = "/place/detail"
                    /\ r.params = [key |-> AMAP_API_KEY, output |-> "json",
                                   extensions |-> "all", id |-> call.poi_id]
               ELSE /\ r.params.offset = call.limit
                    /\ r.params.page = 1

\* an ID lookup in flight although every other parameter was given too
C18_Witness ==
    /\ SearchStarted /\ pc = "await_search"
    /\ Present(call.poi_id) /\ Present(call.keywords) /\ Present(call.center)
    /\ Present(call.polygon) /\ Present(call.city)
    /\ call.limit = 2 /\ call.radius = 500
    /\ \E r \in inflight : DOMAIN r.params = {"key", "output", "extensions", "id"}

----------------------------------------------------------------------------
(* Properties of the transit narration *)

\* the plans of the transit response
AnsweredPlans ==
    IF last.resp.body.route.kind = "object" THEN last.resp.body.route.f.transits
    ELSE <<>>

\* where the plan headers stand in the text; the k-th of them
PlanHeads == {p \in DOMAIN result.text : result.text[p] = Lit("=== plan ")}
PlanHead(k) == CHOOSE p \in PlanHeads : Cardinality({q \in PlanHeads : q < p}) = k - 1

\* the tokens that open the steps of a plan and its per-segment lines
DetailTokens == {Lit("steps:"), Lit("  * bus "), Lit("  * rail "), Lit("  * walk ")}
DetailPositions == {p \in DOMAIN result.text : result.text[p] \in DetailTokens}

ShownPlans == IF Len(AnsweredPlans) < 3 THEN Len(AnsweredPlans) ELSE 3

\* C20: a narrated transit answer has one header per plan for the first
\* three plans and no more, numbered 1, 2, 3 and carrying the durations of
\* the upstream's first, second and third plan in that order; the steps and
\* the per-segment lines stand under the first header only; a plan after
\* the third has no effect, even one that cannot be rendered.
C20_TopThreeInOrder ==
    (RouteAnswered /\ locals.mode = "transit" /\ EnvelopeOK) =>
        /\ result.kind = "text"
        /\ result.text[1] = Lit("Request Error: ") =>
            \E k \in 1..ShownPlans : ~PlanText(k - 1, AnsweredPlans[k]).ok
        /\ result.text[1] # Lit("Request Error: ") =>
            /\ Cardinality(PlanHeads) = ShownPlans
            /\ \A k \in 1..ShownPlans :
                LET p == PlanHead(k)
                    d == _fmt_time(Get(AnsweredPlans[k].duration, PyInt(0))).val
                IN /\ result.text[p + 1] = FmtInt(k)
                   /\ SubSeq(result.text, p + 3, p + 2 + Len(d)) = d
            /\ ShownPlans >= 1 =>
                Cardinality({p \in DOMAIN result.text : result.text[p] = Lit("steps:")}) = 1
            /\ \A p \in DetailPositions :
                /\ PlanHead(1) < p
                /\ ShownPlans >= 2 => p < PlanHead(2)

\* five plans came back, the fourth not renderable: three headers, the
\* third with the 1 h 2 min of the upstream's third plan
C20_Witness ==
    /\ RouteAnswered /\ locals.mode = "transit" /\ EnvelopeOK
    /\ Len(AnsweredPlans) = 5
    /\ Cardinality(PlanHeads) = 3
    /\ result.text[PlanHead(3) + 3] = FmtInt(1)
    /\ result.text[PlanHead(3) + 4] = Lit("h")
    /\ DetailPositions # {}

----------------------------------------------------------------------------
(* Properties of the process-wide state *)

\* what web_search returns when it runs alone in a fresh process and gets
\* the answers rs, "pending" when it then still waits for an answer
RECURSIVE AloneResult(_, _)
AloneResult(rs, tried) ==
    IF rs = <<>>
    THEN IF tried < Len(KEY_POOL) THEN [kind |-> "pending"] ELSE ExhaustedText
    ELSE IF Rejects(Head(rs)) THEN AloneResult(Tail(rs), tried + 1)
    ELSE WebResult(Head(rs))

\* C19: no invocation writes process-wide state (the configuration keeps
\* the value it had after import), and what an invocation sends and returns
\* is what it sends and returns when it runs alone with the same arguments
\* and answers, under any interleaving.
C19_NoSharedMutableState ==
    /\ CURRENT_KEY_INDEX = 0
    /\ \A i \in Invocations :
        /\ \A k \in DOMAIN web[i].sent : web[i].sent[k].key_index = k - 1
        /\ (web[i].pc = "done" /\ KEY_POOL # <<>>) =>
            web[i].result = AloneResult(web[i].recvd, 0)

----------------------------------------------------------------------------
(* Properties of the formatters *)

\* the number a formatter was given: an int, or a string of digits
IsNumber(x) ==
    \/ x.t = "int"
    \/ x.t = "str" /\ x.v # <<>> /\ \A i \in 1..Len(x.v) : IsDigit(x.v[i])
NumberOf(x) == IF x.t = "int" THEN x.n ELSE NatOf(x.v)

\* C25: s seconds are rendered as floor(s/60) minutes when that is below
\* 60, and else as floor(s/3600) hours and floor(s/60) mod 60 minutes, the
\* minutes in 0..59; 125 s is 2 minutes, 3725 s is 1 hour 2 minutes.
C25_MinutesThenHours ==
    (fmt.fn = "_fmt_time" /\ IsNumber(fmt.arg)) =>
        LET sec == NumberOf(fmt.arg)
        IN /\ fmt.out.ok
           /\ sec \div 60 < 60 => fmt.out.val = <<FmtInt(sec \div 60), Lit("min")>>
           /\ sec \div 60 >= 60 =>
                /\ fmt.out.val = <<FmtInt(sec \div 3600), Lit("h"),
                                   FmtInt((sec \div 60) % 60), Lit("min")>>
                /\ fmt.out.val[3].int \in 0..59
           /\ sec = 125 => fmt.out.val = <<FmtInt(2), Lit("min")>>
           /\ sec = 3725 => fmt.out.val = <<FmtInt(1), Lit("h"), FmtInt(2), Lit("min")>>

\* 3600 seconds given as a string: 1 hour 0 minutes
C25_Witness ==
    /\ fmt.fn = "_fmt_time"
    /\ fmt.arg = Str(<<"3", "6", "0", "0">>)
    /\ fmt.out = Good(<<FmtInt(1), Lit("h"), FmtInt(0), Lit("min")>>)

\* C26: a distance below 1000 metres is rendered as that integer number of
\* metres, a distance of 1000 or more in kilometres with one decimal, the
\* nearest one; 850 is 850 metres, 1500 is 1.5 kilometres, 1000 is 1.0
\* kilometres; and the distance poi_search renders inline is what _fmt_dist
\* gives for it.
C26_MetresThenKilometres ==
    /\ (fmt.fn = "distance" /\ IsNumber(fmt.arg)) =>
        LET m == NumberOf(fmt.arg)
        IN /\ fmt.out.ok
           /\ m < 1000 => fmt.out.val = <<FmtInt(m), Lit("m")>>
           /\ m >= 1000 =>
                /\ Len(fmt.out.val) = 2
                /\ fmt.out.val[2] = Lit("km")
                /\ 100 * fmt.out.val[1].tenths - 50 <= m
                /\ m <= 100 * fmt.out.val[1].tenths + 50
           /\ m = 850 => fmt.out.val = <<FmtInt(850), Lit("m")>>
           /\ m = 1500 => fmt.out.val = <<[tenths |-> 15], Lit("km")>>
           /\ m = 1000 => fmt.out.val = <<[tenths |-> 10], Lit("km")>>
    /\ (fmt.fn = "distance" /\ Truthy(fmt.arg)) => fmt.inline = fmt.out

\* 1000 metres, as poi_search gets it: 1.0 kilometres in both renderings
C26_Witness ==
    /\ fmt.fn = "distance"
    /\ fmt.arg = Str(<<"1", "0", "0", "0">>)
    /\ fmt.out = Good(<<[tenths |-> 10], Lit("km")>>)
    /\ fmt.inline = fmt.out


----------------------------------------------------------------------------
(* Properties of the navigation narrator *)

NavNarrated == fmt.fn = "_format_nav_text" /\ fmt.out.ok

\* the steps given, and where step i's text stands in the narration: every
\* step line is the four tokens newline, number, ". ", text
NavStepCount == Len(fmt.arg.steps)
NavTextAt(i) == Len(fmt.out.val) - 4 * (NavStepCount - i)
NavRendered(i) == fmt.out.val[NavTextAt(i)].fmt.v

\* what the specification appends for the road, the distance, the assistant
RoadNamed(st) == Truthy(st.road) /\ ~Contains(st.instruction, st.road.v)
RoadPart(st) ==
    IF ~RoadNamed(st) THEN <<>>
    ELSE IF Contains(st.instruction, <<"X">>)
         THEN <<" ", "(", "Y">> \o st.road.v \o <<")">>
         ELSE <<",", "Y">> \o st.road.v \o <<"H", "S">>
Enriched(st) == st.instruction \o RoadPart(st)
HasDistanceToken(t) == Contains(t, <<"M">>) \/ Contains(t, <<"G", "L">>)
StepDistance(st) == Get(st.distance, Str(<<"0">>))
StepPositive(st) == IsNumber(StepDistance(st)) /\ NumberOf(StepDistance(st)) > 0
DistancePart(st) ==
    <<" ">> \o (IF StepDistance(st).t = "int" THEN DigitsOf(StepDistance(st).n)
                ELSE StepDistance(st).v) \o <<"M">>
AssistantPart(st) ==
    IF Truthy(st.assistant_action)
    THEN <<" ", "(">> \o st.assistant_action.v \o <<")">> ELSE <<>>
StartsWith(t, p) == Len(t) >= Len(p) /\ SubSeq(t, 1, Len(p)) = p
After(t, p) == SubSeq(t, Len(p) + 1, Len(t))

\* C21: in a narration, a step's text carries the distance suffix right
\* after the road-enriched instruction exactly when the step's distance is
\* positive and the enriched instruction holds neither the metre nor the
\* kilometre token; when the enriched instruction holds one, also one that
\* came with the appended road name, nothing but the assistant action
\* follows it.
C21_DistanceSuffix ==
    NavNarrated =>
        \A i \in 1..NavStepCount :
            LET st == fmt.arg.steps[i]
                desc == NavRendered(i)
                rest == After(desc, Enriched(st))
            IN /\ StartsWith(desc, Enriched(st))
               /\ StartsWith(rest, DistancePart(st))
                    <=> (StepPositive(st) /\ ~HasDistanceToken(Enriched(st)))
               /\ HasDistanceToken(Enriched(st)) => rest = AssistantPart(st)

\* a positive distance, an instruction without a token, and a road name
\* that brings the metre token: the step is rendered without the suffix
C21_Witness ==
    /\ NavNarrated
    /\ NavStepCount = 1
    /\ fmt.arg.steps[1] = Step(<<"a">>, Str(<<"r", "M">>), Str(<<"9">>), None)
    /\ NavRendered(1) = <<"a", ",", "Y", "r", "M", "H", "S">>

\* C22: in a narration every step is one line, numbered by its position;
\* its text is the instruction, then the road name if it is non-empty and
\* not inside the instruction (parenthesised when the instruction has the
\* directional cue, as the "along" clause otherwise), then possibly the
\* distance suffix, then the assistant action if there is one; so the
\* instruction is an unchanged prefix of the text.
C22_RoadThenDistanceThenAssistant ==
    NavNarrated =>
        /\ fmt.out.val[Len(fmt.out.val) - 4 * NavStepCount] = Lit("route detail:")
        /\ \A i \in 1..NavStepCount :
            LET st == fmt.arg.steps[i]
                desc == NavRendered(i)
            IN /\ fmt.out.val[NavTextAt(i) - 3] = Lit("\n")
               /\ fmt.out.val[NavTextAt(i) - 2] = FmtInt(i)
               /\ fmt.out.val[NavTextAt(i) - 1] = Lit(". ")
               /\ StartsWith(desc, st.instruction)
               /\ \E dpart \in {<<>>, DistancePart(st)} :
                    desc = st.instruction \o RoadPart(st) \o dpart \o AssistantPart(st)

\* two steps: the clause form with the suffix, then the parenthesised form
\* with the assistant action
C22_Witness ==
    /\ NavNarrated
    /\ NavStepCount = 2
    /\ fmt.arg.steps[2].road = Str(<<"r">>)
    /\ NavRendered(1) = <<"a", ",", "Y", "r", "H", "S", " ", "9", "M">>
    /\ NavRendered(2) = <<"X", " ", "(", "Y", "r", ")", " ", "(", "z", ")">>
    /\ fmt.out.val[NavTextAt(2) - 2] = FmtInt(2)


----------------------------------------------------------------------------
(* Properties of the transit narrator *)

TransitNarrated == fmt.fn = "_format_transit_text" /\ fmt.out.ok /\ fmt.arg # <<>>

RenderedPlans == IF Len(fmt.arg) < 3 THEN Len(fmt.arg) ELSE 3

\* the positions of a token in the narration, and the k-th of them
PositionsOf(tok) == {p \in DOMAIN fmt.out.val : fmt.out.val[p] = tok}
NthOf(ps, k) == CHOOSE p \in ps : Cardinality({q \in ps : q < p}) = k - 1

\* the transfer chain of the k-th plan: what stands between "route: " and
\* the end of its line
ChainShown(k) ==
    LET p == NthOf(PositionsOf(Lit("route: ")), k)
        ends == {q \in DOMAIN fmt.out.val : q > p /\ fmt.out.val[q] = Lit("\n")}
        e == IF ends = {} THEN Len(fmt.out.val)
             ELSE (CHOOSE q \in ends : \A r \in ends : q <= r) - 1
    IN SubSeq(fmt.out.val, p + 1, e)

\* the longest prefix of a name without an opening parenthesis
CutAtParen(name) ==
    LET ks == {k \in 0..Len(name) : \A i \in 1..k : name[i] # "("}
    IN SubSeq(name, 1, CHOOSE k \in ks : \A j \in ks : j <= k)

\* the chain entries a segment stands for
ChainEntry(seg) ==
    IF SegmentKind(seg) = "bus" THEN <<Fmt(Str(CutAtParen(seg.bus.f.buslines[1].name)))>>
    ELSE IF SegmentKind(seg) = "railway" THEN <<Fmt(seg.railway.f.name)>>
    ELSE <<>>
RECURSIVE ChainOf(_)
ChainOf(segs) == IF segs = <<>> THEN <<>> ELSE ChainEntry(Head(segs)) \o ChainOf(Tail(segs))

SegmentsOfKind(segs, k) == {i \in 1..Len(segs) : SegmentKind(segs[i]) = k}

\* C23: in a transit narration, the chain of each rendered plan is, in
\* segment order and joined by " -> ", the first bus line's name up to its
\* first opening parenthesis for a bus segment and the railway name for a
\* railway segment, with nothing for any other segment; so it has no more
\* entries than the plan has segments, and the first plan has one bus line
\* per bus segment, one railway line per railway segment and no more detail
\* lines than segments.
C23_TransferChain ==
    TransitNarrated =>
        /\ Cardinality(PositionsOf(Lit("route: "))) = RenderedPlans
        /\ \A k \in 1..RenderedPlans :
            /\ ChainShown(k) = Join(ChainOf(fmt.arg[k].segments))
            /\ Len(ChainOf(fmt.arg[k].segments)) <= Len(fmt.arg[k].segments)
        /\ LET segs == fmt.arg[1].segments
           IN /\ Cardinality(PositionsOf(Lit("  * bus ")))
                    = Cardinality(SegmentsOfKind(segs, "bus"))
              /\ Cardinality(PositionsOf(Lit("  * rail ")))
                    = Cardinality(SegmentsOfKind(segs, "railway"))
              /\ Cardinality(PositionsOf(Lit("  * bus ")) \cup PositionsOf(Lit("  * rail "))
                             \cup PositionsOf(Lit("  * walk "))) <= Len(segs)

\* a railway whose name has parentheses, kept whole, then a bus line cut at
\* its first parenthesis
C23_Witness ==
    /\ TransitNarrated
    /\ Len(fmt.arg) = 1 /\ Len(fmt.arg[1].segments) = 2
    /\ SegmentKind(fmt.arg[1].segments[1]) = "railway"
    /\ SegmentKind(fmt.arg[1].segments[2]) = "bus"
    /\ fmt.arg[1].segments[2].bus.f.buslines[1].name = <<"L", "(", "1", ")", "(", "2", ")">>
    /\ ChainShown(1) = <<Fmt(Str(<<"R", "(", "1", ")">>)), Lit(" -> "), Fmt(Str(<<"L">>))>>

\* the walks of the first plan that are shown: the segments with neither bus
\* lines nor a railway name whose walk is longer than 50 metres
WalkMetres(seg) == NumberOf(Get(seg.walking.f.distance, PyInt(0)))
RECURSIVE LongWalks(_)
LongWalks(segs) ==
    IF segs = <<>> THEN <<>>
    ELSE (IF SegmentKind(Head(segs)) = "walking" /\ WalkMetres(Head(segs)) > 50
          THEN <<Head(segs).walking.f.distance>> ELSE <<>>) \o LongWalks(Tail(segs))

\* C24: in a transit narration, the walking lines under the first plan
\* are, in order, the walks of its walking segments that are strictly
\* longer than 50 metres, each with its distance as _fmt_dist writes it; a
\* walk of 50 metres or less has no line.
C24_LongWalksOnly ==
    TransitNarrated =>
        LET walks == LongWalks(fmt.arg[1].segments)
            lines == PositionsOf(Lit("  * walk "))
        IN /\ Cardinality(lines) = Len(walks)
           /\ \A k \in 1..Len(walks) :
                LET p == NthOf(lines, k)
                    d == _fmt_dist(walks[k]).val
                IN SubSeq(fmt.out.val, p + 1, p + Len(d)) = d

\* a walk of 50 metres, then one of 51: one line, of 51 metres
C24_Witness ==
    /\ TransitNarrated
    /\ Len(fmt.arg) = 1 /\ Len(fmt.arg[1].segments) = 2
    /\ fmt.arg[1].segments[1] = Segment(Missing, Missing, Walking(Str(<<"5", "0">>)))
    /\ fmt.arg[1].segments[2] = Segment(Missing, Missing, Walking(Str(<<"5", "1">>)))
    /\ Cardinality(PositionsOf(Lit("  * walk "))) = 1
    /\ SubSeq(fmt.out.val, Len(fmt.out.val) - 2, Len(fmt.out.val))
            = <<Lit("  * walk "), FmtInt(51), Lit("m")>>


----------------------------------------------------------------------------
(* Properties of the order of the upstream requests *)

SendsOn(sd) == {i \in AllSends : log[i].req.side = sd}
RecvsBefore(i) == {j \in 1..(i - 1) : log[j].ev = "recv"}
SendsBefore(i) == {j \in 1..(i - 1) : log[j].ev = "send"}

\* C27: in plan_route, the route request is sent only when every earlier
\* request has been answered and both resolutions have returned a
\* coordinate; the origin's requests all precede the destination's, which
\* are sent only once the origin's resolution has returned; there is at
\* most one route request, at most two requests for each resolution and so
\* at most five in all; an invocation that ends with a resolution lacking
\* a coordinate has sent no route request.
C27_RouteAfterBothResolutions ==
    (call.op = "plan_route" /\ pc # "idle") =>
        /\ Cardinality(SendsOn("-")) <= 1
        /\ Cardinality(SendsOn("ori")) <= 2
        /\ Cardinality(SendsOn("des")) <= 2
        /\ Cardinality(AllSends) <= 5
        /\ \A i \in SendsOn("ori") : \A j \in SendsOn("des") : i < j
        /\ SendsOn("des") # {} => "ori" \in DOMAIN locals
        /\ \A i \in SendsOn("-") :
            /\ SendsOn("ori") \cup SendsOn("des") \subseteq 1..(i - 1)
            /\ Cardinality(RecvsBefore(i)) = Cardinality(SendsBefore(i))
            /\ "ori" \in DOMAIN locals /\ Truthy(locals.ori[1])
            /\ "des" \in DOMAIN locals /\ Truthy(locals.des[1])
        /\ (/\ pc = "done"
            /\ "des" \in DOMAIN locals
            /\ ~Truthy(locals.ori[1]) \/ ~Truthy(locals.des[1])) =>
                /\ SendsOn("-") = {}
                /\ result = UnresolvedText(call.origin, call.destination)

\* five requests: geocoding and POI search for the origin, the same for the
\* destination, then the route request, answered
C27_Witness ==
    /\ call.op = "plan_route" /\ pc = "done"
    /\ Cardinality(AllSends) = 5
    /\ Cardinality(SendsOn("ori")) = 2 /\ Cardinality(SendsOn("des")) = 2
    /\ log[9].ev = "send" /\ log[9].req.side = "-"
    /\ log[10].ev = "recv"


----------------------------------------------------------------------------
(* Properties of poi_search's response handling *)

SearchAnswered ==
    /\ call.op = "poi_search" /\ pc = "done"
    /\ AllSends # {}
    /\ last.resp.kind = "http"

\* the result list of the answered search
AnsweredPois ==
    IF last.resp.body.items.kind = "list" THEN last.resp.body.items.list ELSE <<>>

EntryStarts == {p \in DOMAIN result.text : result.text[p] = Lit("\n\n")}
EntryStart(k) == CHOOSE p \in EntryStarts : Cardinality({q \in EntryStarts : q < p}) = k - 1

\* C28: poi_search sends at most one request. Its answer is classified in
\* this order: a status code other than 200 gives the HTTP-failure text
\* with the code, whatever the body; else an envelope whose status is not
\* "1" gives the API-error text with info; else an empty or missing result
\* list gives the 'nothing found' text; else the text is either the
\* runtime-exception text or the header with the number of POIs followed
\* by one entry per POI, numbered from 1 in upstream order.
C28_ClassifiedInOrder ==
    /\ call.op = "poi_search" => Cardinality(AllSends) <= 1
    /\ SearchAnswered =>
        /\ result.kind = "text"
        /\ IF last.resp.code # 200
           THEN result.text = <<Lit("[X] HTTP request failed: "), FmtInt(last.resp.code)>>
           ELSE IF last.resp.body.json # "object"
           THEN result.text[1] = Lit("[X] runtime exception: ")
           ELSE IF last.resp.body.status # Str(<<"1">>)
           THEN result.text = <<Lit("[X] Amap API error: "), Fmt(last.resp.body.info)>>
           ELSE IF AnsweredPois = <<>>
           THEN /\ result.text[1] = Lit("(!) in [")
                /\ result.text[Len(result.text)] = Lit("] nothing found.")
           ELSE \/ result.text[1] = Lit("[X] runtime exception: ")
                \/ /\ result.text[1] = Lit("(?) [")
                   /\ \E p \in DOMAIN result.text :
                        /\ result.text[p] = Lit("] found ")
                        /\ result.text[p + 1] = FmtInt(Len(AnsweredPois))
                        /\ \A q \in EntryStarts : p < q
                   /\ Cardinality(EntryStarts) = Len(AnsweredPois)
                   /\ \A k \in 1..Len(AnsweredPois) :
                        /\ result.text[EntryStart(k) + 1] = FmtInt(k)
                        /\ result.text[EntryStart(k) + 3]
                             = Fmt(Get(AnsweredPois[k].name,
                                       Str(<<"u", "n", "k", "n", "o", "w", "n">>)))

\* three POIs came back: three entries, in the upstream's order
C28_Witness ==
    /\ SearchAnswered
    /\ last.resp.code = 200 /\ last.resp.body.json = "object"
    /\ Len(AnsweredPois) = 3
    /\ Cardinality(EntryStarts) = 3
    /\ result.text[EntryStart(1) + 3] = Fmt(Str(<<"C">>))
    /\ result.text[EntryStart(2) + 3] = Fmt(Str(<<"A">>))
    /\ result.text[EntryStart(3) + 1] = FmtInt(3)


----------------------------------------------------------------------------
(* Properties of the key rotation *)

\* the key at position k (from 0) was used for a request that was answered
\* 401, 403 or 429
KeyRejected(k) ==
    \E i \in Invocations : \E j \in DOMAIN web[i].recvd :
        web[i].sent[j].key_index = k /\ Rejects(web[i].recvd[j])

\* C29: every key that CURRENT_KEY_INDEX has moved past was used for a
\* request that was answered 401, 403 or 429, under any interleaving of the
\* invocations.
C29_AbandonedOnlyAfterRejection ==
    \A k \in 0..(CURRENT_KEY_INDEX - 1) : k < Len(KEY_POOL) => KeyRejected(k)

AllKeysRejected == KEY_POOL # <<>> /\ \A k \in 0..(Len(KEY_POOL) - 1) : KeyRejected(k)

\* C30: no step lowers CURRENT_KEY_INDEX; no invocation sends more requests
\* than KEY_POOL has keys; and an invocation that starts when every key has
\* been rejected ends at once with the all-keys-exhausted text, having
\* sent nothing.
C30_IndexOnlyGrows ==
    [][/\ CURRENT_KEY_INDEX' >= CURRENT_KEY_INDEX
       /\ \A i \in Invocations :
            /\ Len(web'[i].sent) <= Len(KEY_POOL)
            /\ (AllKeysRejected /\ web[i].pc = "idle" /\ web'[i].pc # "idle") =>
                /\ web'[i].pc = "done"
                /\ web'[i].result = ExhaustedText
                /\ web'[i].sent = <<>>]_vars

\* both keys were rejected in one invocation, which sent two requests; the
\* other invocation has ended with the exhausted text and sent nothing
C30_Witness ==
    /\ Len(KEY_POOL) = 2
    /\ AllKeysRejected
    /\ CURRENT_KEY_INDEX = 2
    /\ \E i \in Invocations : \E j \in Invocations :
        /\ Len(web[i].sent) = 2 /\ web[i].result = ExhaustedText
        /\ web[j].pc = "done" /\ web[j].sent = <<>> /\ web[j].result = ExhaustedText

====
